---- MODULE Spec2Model ----
(***************************************************************************)
(* The Universal Machine emulator of src/src/loader.c as a state machine.  *)
(*                                                                         *)
(* A machine word is WordBits wide.  The source fixes the width at 32      *)
(* (uint32_t); TLC's integers stop at 2^31-1, so the width is a bound of   *)
(* the model and every shift and mask of the source is written relative to *)
(* it: the opcode is the top 4 bits, the load-immediate register the next  *)
(* 3, the A/B/C fields are bits 6..8, 3..5, 0..2.  With WordBits = 32 the  *)
(* definitions are literally those of the source.  size_t quantities       *)
(* (g_arr_len, capacities, array lengths) are unbounded naturals.          *)
(*                                                                         *)
(* The C heap is explicit: heap maps the address of every block that was   *)
(* returned by calloc/malloc and not yet freed to its contents, and a pool *)
(* slot holds an address (or NULL), as in the source.                      *)
(***************************************************************************)
EXTENDS Integers, Sequences, FiniteSets, TLC

----------------------------------------------------------------------------
(* Bounds of the model *)

WordBits == 14      \* width of a word (32 in the source)
MaxCycles == 9      \* cycles of the fetch/decode/execute loop explored
MaxArrLen == 3      \* largest block (in words) the host heap can still provide
MaxInput == 2       \* most bytes standard input delivers
MaxPoolLen == 5     \* longest program over the registry instructions
MaxProgLen == 3     \* longest program over the whole instruction set
ByteBits == 2       \* width of a byte of the program file (8 in the source)
MaxFileLen == 8     \* longest program file, in bytes
MaxSrcLen == 4      \* longest assembler source built from the label lines, in lines

----------------------------------------------------------------------------
(* Words and bit fields *)

RECURSIVE Pow2(_)
Pow2(n) == IF n = 0 THEN 1 ELSE 2 * Pow2(n - 1)

WordMod == Pow2(WordBits)
Word == 0 .. (WordMod - 1)
AllOnes == WordMod - 1

OpShift == WordBits - 4
LiShift == WordBits - 7

OPC(w) == w \div Pow2(OpShift)
(* the A field read one bit too high *)
ABC_A_Bits7to9(w) == (w \div 128) % 8

ABC_A(w) == (w \div 64) % 8
ABC_B(w) == (w \div 8) % 8
ABC_C(w) == w % 8
(* opcode 13 taking its register from bits 6..8 *)
LI_A_FromABC(w) == (w \div 64) % 8

LI_A(w) == (w \div Pow2(LiShift)) % 8
LI_VAL(w) == w % Pow2(LiShift)

RECURSIVE BitAnd(_, _)
BitAnd(x, y) ==
    IF x = 0 \/ y = 0 THEN 0
    ELSE (x % 2) * (y % 2) + 2 * BitAnd(x \div 2, y \div 2)

(* The words the assembler emits, used to write the programs below *)
(* the B and C fields exchanged *)
EncABC_SwappedBC(op, A, B, C) == op * Pow2(OpShift) + (A % 8) * 64 + (C % 8) * 8 + (B % 8)

EncABC(op, A, B, C) == op * Pow2(OpShift) + (A % 8) * 64 + (B % 8) * 8 + (C % 8)
EncLI(A, imm) == 13 * Pow2(OpShift) + (A % 8) * Pow2(LiShift) + (imm % Pow2(LiShift))

----------------------------------------------------------------------------
(* The C heap *)

NULL == 0

NewAddr(h) ==
    CHOOSE a \in 1 .. (Cardinality(DOMAIN h) + 1) :
        /\ a \notin DOMAIN h
        /\ \A b \in 1 .. (a - 1) : b \in DOMAIN h

HeapPut(h, a, buf) == [x \in (DOMAIN h) \cup {a} |-> IF x = a THEN buf ELSE h[x]]
HeapFree(h, a) == [x \in (DOMAIN h) \ {a} |-> h[x]]
HeapFreeAll(h, as) == [x \in (DOMAIN h) \ as |-> h[x]]

Zeros(n) == [i \in 1 .. n |-> 0]

(* calloc/malloc/realloc may always fail; a block larger than the host can
   provide always fails. *)
AllocOutcomes(n) == IF n > MaxArrLen THEN {FALSE} ELSE {TRUE, FALSE}

----------------------------------------------------------------------------
(* The machine state *)

VARIABLES
    state,        \* "RUN" while main's loop runs, "HALTED" after return 0, "FAILED" after exit(1)
    diag,         \* the message written to stderr on exit ("" while running)
    exitcode,     \* the process exit code (-1 while running)
    regs,         \* uint32_t regs[8]
    pc,           \* uint32_t pc
    g_arr,        \* the slot table: slot index -> [data, len, active], over 0 .. g_arr_cap-1
    g_arr_len,    \* number of slots in use
    g_arr_cap,    \* capacity of the slot table (0: no table)
    g_free_ids,   \* the free-id stack, bottom first; g_free_len is its length
    g_free_cap,   \* capacity of the free-id stack (0: no block)
    heap,         \* address -> contents of every block not yet freed
    input,        \* the bytes read from standard input so far
    eof,          \* getchar has returned EOF
    output,       \* the bytes written to standard output
    file,         \* the bytes of the program file while main reads it (<<>> once closed)
    fpos,         \* the read position in the program file
    cycles,       \* cycles started so far
    last,         \* the last cycle: the word fetched and the state it started from
    hist,         \* the identifiers issued ("alloc") and abandoned ("free") so far, in
                  \* order; dirty: the abandoned array held a word other than 0
    written,      \* <<id, off>> -> the value of the last array update of that word,
                  \* forgotten when id is abandoned or array 0 is replaced
    fin,          \* asm: the lines of the input file
    lineno,       \* asm: the lines read in the current pass
    labels,       \* asm: the label table, in order of declaration
    fout,         \* asm: the bytes of the output file
    listing,      \* disasm: the lines written to standard output
    todo,         \* the tools still to run, in order
    ran,          \* the tools that returned 0 so far
    line2         \* asm: the last line the second pass handled and what it emitted

poolVars == <<g_arr, g_arr_len, g_arr_cap, g_free_ids, g_free_cap, heap>>
exitVars == <<state, diag, exitcode>>
ioVars == <<input, eof, output, file, fpos>>
toolVars == <<fin, lineno, labels, fout, listing, todo, ran, line2>>
vars == <<state, diag, exitcode, regs, pc, g_arr, g_arr_len, g_arr_cap,
          g_free_ids, g_free_cap, heap, input, eof, output, file, fpos, cycles, last, hist,
          written, fin, lineno, labels, fout, listing, todo, ran, line2>>

(* the second pass of the assembler has handled no line *)
NoLine == [lineno |-> 0, s |-> <<>>, insn |-> FALSE, ok |-> TRUE, word |-> 0, at |-> 0]

(* no tool of the tool chain runs while the machine does *)
ToolIdle ==
    /\ fin = <<>>
    /\ lineno = 0
    /\ labels = <<>>
    /\ fout = <<>>
    /\ listing = <<>>
    /\ todo = <<>>
    /\ ran = <<>>
    /\ line2 = NoLine

ZeroSlot == [data |-> NULL, len |-> 0, active |-> 0]

----------------------------------------------------------------------------
(* The array registry *)

RECURSIVE GrowCap(_, _)
GrowCap(nc, need) == IF nc < need THEN GrowCap(2 * nc, need) ELSE nc

(* arr_reserve taking a fresh zeroed table without copying the slots *)
arr_reserve_NoCopy(arr, cap, need) ==
    IF cap >= need THEN [arr |-> arr, cap |-> cap]
    ELSE LET nc == GrowCap(IF cap # 0 THEN cap ELSE 4, need)
         IN [arr |-> [i \in 0 .. (nc - 1) |-> ZeroSlot], cap |-> nc]

(* arr_reserve, when realloc succeeds: the table and its capacity *)
arr_reserve(arr, cap, need) ==
    IF cap >= need THEN [arr |-> arr, cap |-> cap]
    ELSE LET nc == GrowCap(IF cap # 0 THEN cap ELSE 4, need)
         IN [arr |-> [i \in 0 .. (nc - 1) |-> IF i < cap THEN arr[i] ELSE ZeroSlot],
             cap |-> nc]

(* freeids_reserve, when realloc succeeds: the new capacity *)
freeids_reserve(cap, need) ==
    IF cap >= need THEN cap
    ELSE GrowCap(IF cap # 0 THEN cap ELSE 8, need)

(* id_acquire reading the top of the stack without popping it *)
id_acquire_NoPop(free, alen) ==
    IF Len(free) > 0
    THEN [id |-> free[Len(free)], free |-> free, len |-> alen, need |-> 0]
    ELSE [id |-> alen % WordMod, free |-> free, len |-> alen + 1, need |-> alen + 1]

(* id_acquire taking the oldest free id *)
id_acquire_Fifo(free, alen) ==
    IF Len(free) > 0
    THEN [id |-> free[1], free |-> Tail(free), len |-> alen, need |-> 0]
    ELSE [id |-> alen % WordMod, free |-> free, len |-> alen + 1, need |-> alen + 1]

(* id_acquire never reusing an id *)
id_acquire_AlwaysFresh(free, alen) ==
    [id |-> alen % WordMod, free |-> free, len |-> alen + 1, need |-> alen + 1]

(* id_acquire returning the slot index as a size_t, not cut to a word *)
id_acquire_NoTruncate(free, alen) ==
    IF Len(free) > 0
    THEN [id |-> free[Len(free)], free |-> SubSeq(free, 1, Len(free) - 1),
          len |-> alen, need |-> 0]
    ELSE [id |-> alen, free |-> free, len |-> alen + 1, need |-> alen + 1]

(* id_acquire: the id returned, the stack and slot count it leaves, and the
   capacity it asked arr_reserve for (0: arr_reserve was not called) *)
id_acquire(free, alen) ==
    IF Len(free) > 0
    THEN [id |-> free[Len(free)], free |-> SubSeq(free, 1, Len(free) - 1),
          len |-> alen, need |-> 0]
    ELSE [id |-> alen % WordMod, free |-> free, len |-> alen + 1, need |-> alen + 1]

(* id_release that never stores the id *)
id_release_Lost(free, id) == free

(* id_release, after freeids_reserve succeeded *)
id_release(free, id) == Append(free, id)

(* arrays_boot on the empty registry *)
arrays_boot(program, nwords) ==
    LET r == arr_reserve(<<>>, 0, 1)
    IN [arr |-> [r.arr EXCEPT ![0] = [data |-> program, len |-> nwords, active |-> 1]],
        len |-> 1, cap |-> r.cap]

(* the blocks arrays_destroy frees *)
DestroyedBlocks(arr, alen) == {arr[i].data : i \in 0 .. (alen - 1)}

SlotBuf(arr, h, id) == IF arr[id].data = NULL THEN <<>> ELSE h[arr[id].data]

IsActive(arr, alen, id) == id < alen /\ arr[id].active # 0

(* opcode 8 taking its length from register B *)
AllocLen_FromB(r, w) == r[ABC_B(w)]

(* line 399: the length opcode 8 allocates *)
AllocLen(r, w) == r[ABC_C(w)]

(* the check of opcode 9 without id == 0 *)
DeallocInvalid_AllowsZero(arr, alen, id) == id >= alen \/ arr[id].active = 0

(* the check of opcode 9 without the active flag *)
DeallocInvalid_IgnoresActive(arr, alen, id) == id = 0 \/ id >= alen

(* line 425: opcode 9 refuses the identifier *)
DeallocInvalid(arr, alen, id) == id = 0 \/ id >= alen \/ arr[id].active = 0

(* opcode 9 without line 435 *)
Abandoned_StaysActive(arr, id) == [arr EXCEPT ![id] = [data |-> NULL, len |-> 0, active |-> 1]]

(* lines 433-435: the slot of an abandoned array *)
Abandoned(arr, id) == [arr EXCEPT ![id] = ZeroSlot]

(* an array holds a word other than 0 *)
Dirty(arr, h, id) == \E k \in 1 .. Len(SlotBuf(arr, h, id)) : SlotBuf(arr, h, id)[k] # 0

----------------------------------------------------------------------------
(* Leaving the loop *)

(* arrays_destroy on the registry (arr, alen) and heap h *)
arrays_destroy(arr, alen, h) ==
    /\ heap' = HeapFreeAll(h, DestroyedBlocks(arr, alen))
    /\ g_arr' = <<>>
    /\ g_arr_len' = 0
    /\ g_arr_cap' = 0
    /\ g_free_ids' = <<>>
    /\ g_free_cap' = 0

(* fail_and_exit(msg): a trap *)
fail_and_exit(msg, arr, alen, h) ==
    /\ state' = "FAILED"
    /\ diag' = msg
    /\ exitcode' = 1
    /\ arrays_destroy(arr, alen, h)
    /\ UNCHANGED <<regs, pc, ioVars, toolVars, hist, written>>

(* die(msg): exit(1) and nothing else; the registry is left as it is, with
   the slot table arr, the stack fr and the heap h of that moment *)
die(msg, arr, fr, h) ==
    /\ state' = "FAILED"
    /\ diag' = msg
    /\ exitcode' = 1
    /\ g_arr' = arr
    /\ g_free_ids' = fr
    /\ heap' = h
    /\ UNCHANGED <<g_arr_len, g_arr_cap, g_free_cap, regs, pc, ioVars, toolVars>>

----------------------------------------------------------------------------
(* The cycle: bounds check, fetch, decode *)

Running == state = "RUN" /\ cycles < MaxCycles

(* the bounds check with > for >= *)
PcInBounds_OffByOne(p, len0) == ~(p > len0)

(* line 290, negated: the cycle goes on to fetch *)
PcInBounds(p, len0) == ~(p >= len0)

(* g_arr[0].data[pc]: the word at pc; a read past the block is undefined
   and may yield any word (two of them stand for all) *)
FetchWords ==
    LET buf == SlotBuf(g_arr, heap, 0)
    IN IF pc < Len(buf) THEN {buf[pc + 1]} ELSE {0, EncABC(7, 0, 0, 0)}

Snapshot(w) ==
    [w |-> w, pc |-> pc, len0 |-> g_arr[0].len, regs |-> regs, arr |-> g_arr,
     alen |-> g_arr_len, free |-> g_free_ids, heap |-> heap, input |-> input,
     output |-> output]

(* a cycle that fetched w *)
Tick(w) == cycles' = cycles + 1 /\ last' = Snapshot(w)

NextPc == (pc + 1) % WordMod

(* an instruction that completes and touches neither the registry nor I/O *)
RegStep(r) ==
    /\ regs' = r
    /\ pc' = NextPc
    /\ UNCHANGED <<exitVars, poolVars, ioVars, toolVars, hist, written>>

Trap(msg) == fail_and_exit(msg, g_arr, g_arr_len, heap)

(* line 290: PC outside array 0 at the start of a cycle; nothing is fetched *)
PcTrap ==
    /\ Running
    /\ ~PcInBounds(pc, g_arr[0].len)
    /\ fail_and_exit("PC out of bounds at cycle start", g_arr, g_arr_len, heap)
    /\ cycles' = cycles + 1
    /\ last' = Snapshot(-1)

(* 13: load immediate *)
ExecLoadImm(w) ==
        /\ RegStep([regs EXCEPT ![LI_A(w)] = LI_VAL(w)])

OpLoadImm ==
    /\ Running
    /\ PcInBounds(pc, g_arr[0].len)
    /\ \E w \in FetchWords :
        /\ OPC(w) = 13
        /\ ExecLoadImm(w)
        /\ Tick(w)

(* opcode 0 moving whatever r[C] holds *)
ExecCmov_Unconditional(w) ==
        /\ RegStep([regs EXCEPT ![ABC_A(w)] = regs[ABC_B(w)]])

(* 0: conditional move *)
ExecCmov(w) ==
        /\ RegStep(IF regs[ABC_C(w)] # 0
                      THEN [regs EXCEPT ![ABC_A(w)] = regs[ABC_B(w)]]
                      ELSE regs)

OpCmov ==
    /\ Running
    /\ PcInBounds(pc, g_arr[0].len)
    /\ \E w \in FetchWords :
        /\ OPC(w) = 0
        /\ ExecCmov(w)
        /\ Tick(w)

(* the offset check of opcodes 1 and 2, one word too far *)
OffsetOOB_OffByOne(off, len) == off > len

(* lines 339, 352: the offset is outside the array *)
OffsetOOB(off, len) == off >= len

(* line 341, g_arr[id].data[off]: the word at off; a read past the block is
   undefined and may yield any word (two of them stand for all) *)
LoadWords(buf, off) == IF off < Len(buf) THEN {buf[off + 1]} ELSE {0, AllOnes}

(* an array update that stores the value one word further *)
StoreWord_NextWord(h, a, off, val) ==
    IF a # NULL /\ off + 1 < Len(h[a])
    THEN {[h EXCEPT ![a][off + 2] = val]}
    ELSE {h} \cup {[h EXCEPT ![b][1] = val] : b \in {x \in DOMAIN h : Len(h[x]) > 0}}

(* line 354, g_arr[id].data[off] = val: the heaps the store may leave; a
   store past the block is undefined: it is lost or lands in some block *)
StoreWord(h, a, off, val) ==
    IF a # NULL /\ off < Len(h[a])
    THEN {[h EXCEPT ![a][off + 1] = val]}
    ELSE {h} \cup {[h EXCEPT ![b][1] = val] : b \in {x \in DOMAIN h : Len(h[x]) > 0}}

(* the record of array updates: word off of array id now holds val *)
Remember(wr, id, off, val) ==
    [p \in (DOMAIN wr) \cup {<<id, off>>} |-> IF p = <<id, off>> THEN val ELSE wr[p]]

(* the record of array updates once array id is abandoned or replaced *)
Forget(wr, id) == [p \in {q \in DOMAIN wr : q[1] # id} |-> wr[p]]

(* 1: array index *)
ExecIndex(w) ==
        /\ LET id == regs[ABC_B(w)]
               off == regs[ABC_C(w)]
           IN IF ~IsActive(g_arr, g_arr_len, id) THEN Trap("index: inactive array")
              ELSE IF OffsetOOB(off, g_arr[id].len) THEN Trap("index: offset OOB")
              ELSE \E x \in LoadWords(SlotBuf(g_arr, heap, id), off) :
                     RegStep([regs EXCEPT ![ABC_A(w)] = x])

OpIndex ==
    /\ Running
    /\ PcInBounds(pc, g_arr[0].len)
    /\ \E w \in FetchWords :
        /\ OPC(w) = 1
        /\ ExecIndex(w)
        /\ Tick(w)

(* 2: array update *)
ExecUpdate(w) ==
        /\ LET id == regs[ABC_A(w)]
               off == regs[ABC_B(w)]
               val == regs[ABC_C(w)]
           IN IF ~IsActive(g_arr, g_arr_len, id) THEN Trap("update: inactive array")
              ELSE IF OffsetOOB(off, g_arr[id].len) THEN Trap("update: offset OOB")
              ELSE /\ heap' \in StoreWord(heap, g_arr[id].data, off, val)
                   /\ pc' = NextPc
                   /\ written' = Remember(written, id, off, val)
                   /\ UNCHANGED <<exitVars, regs, g_arr, g_arr_len, g_arr_cap,
                                  g_free_ids, g_free_cap, ioVars, toolVars, hist>>

OpUpdate ==
    /\ Running
    /\ PcInBounds(pc, g_arr[0].len)
    /\ \E w \in FetchWords :
        /\ OPC(w) = 2
        /\ ExecUpdate(w)
        /\ Tick(w)

(* a sum that is not reduced to a word *)
AddWord_NoWrap(x, y) == x + y

(* line 361: the 32-bit sum *)
AddWord(x, y) == (x + y) % WordMod

(* 3: addition *)
ExecAdd(w) ==
        /\ RegStep([regs EXCEPT ![ABC_A(w)] = AddWord(regs[ABC_B(w)], regs[ABC_C(w)])])

OpAdd ==
    /\ Running
    /\ PcInBounds(pc, g_arr[0].len)
    /\ \E w \in FetchWords :
        /\ OPC(w) = 3
        /\ ExecAdd(w)
        /\ Tick(w)

(* line 368: the 32-bit product *)
MulWord(x, y) == (x * y) % WordMod

(* 4: multiplication *)
ExecMul(w) ==
        /\ RegStep([regs EXCEPT ![ABC_A(w)] = MulWord(regs[ABC_B(w)], regs[ABC_C(w)])])

OpMul ==
    /\ Running
    /\ PcInBounds(pc, g_arr[0].len)
    /\ \E w \in FetchWords :
        /\ OPC(w) = 4
        /\ ExecMul(w)
        /\ Tick(w)

(* a division that rounds up *)
DivWord_Ceil(x, y) == (x + y - 1) \div y

(* line 379: the unsigned quotient *)
DivWord(x, y) == x \div y

(* 5: unsigned division *)
ExecDiv(w) ==
        /\ LET denom == regs[ABC_C(w)]
           IN IF denom = 0 THEN Trap("divide by zero")
              ELSE RegStep([regs EXCEPT ![ABC_A(w)] = DivWord(regs[ABC_B(w)], denom)])

OpDiv ==
    /\ Running
    /\ PcInBounds(pc, g_arr[0].len)
    /\ \E w \in FetchWords :
        /\ OPC(w) = 5
        /\ ExecDiv(w)
        /\ Tick(w)

(* line 386: ~(x & y) *)
NandWord(x, y) == AllOnes - BitAnd(x, y)

(* 6: not-and *)
ExecNand(w) ==
        /\ RegStep([regs EXCEPT ![ABC_A(w)] = NandWord(regs[ABC_B(w)], regs[ABC_C(w)])])

OpNand ==
    /\ Running
    /\ PcInBounds(pc, g_arr[0].len)
    /\ \E w \in FetchWords :
        /\ OPC(w) = 6
        /\ ExecNand(w)
        /\ Tick(w)

(* 7: halt *)
ExecHalt(w) ==
        /\ arrays_destroy(g_arr, g_arr_len, heap)
        /\ state' = "HALTED"
        /\ exitcode' = 0
        /\ UNCHANGED <<diag, regs, pc, ioVars, toolVars, hist, written>>

OpHalt ==
    /\ Running
    /\ PcInBounds(pc, g_arr[0].len)
    /\ \E w \in FetchWords :
        /\ OPC(w) = 7
        /\ ExecHalt(w)
        /\ Tick(w)

(* 8: allocation.  calloc (when n > 0) and the realloc of arr_reserve (when
   the slot table must grow) each succeed or fail. *)
ExecAlloc(w) ==
        /\ LET n == AllocLen(regs, w)
               data == IF n > 0 THEN NewAddr(heap) ELSE NULL
               h1 == IF n > 0 THEN HeapPut(heap, data, Zeros(n)) ELSE heap
               acq == id_acquire(g_free_ids, g_arr_len)
               r == arr_reserve(g_arr, g_arr_cap, acq.need)
               id == acq.id
           IN \E callocOk \in (IF n > 0 THEN AllocOutcomes(n) ELSE {TRUE}) :
              \E reallocOk \in (IF callocOk /\ acq.need > g_arr_cap THEN BOOLEAN ELSE {TRUE}) :
                IF ~callocOk THEN Trap("alloc: OOM")
                ELSE IF ~reallocOk
                THEN /\ die("out of memory (arr)", g_arr, g_free_ids, h1)
                     /\ hist' = hist
                     /\ written' = written
                ELSE IF id = 0
                THEN fail_and_exit("alloc: id 0 reserved", r.arr, acq.len, h1)
                ELSE /\ g_arr' = [r.arr EXCEPT ![id] = [data |-> data, len |-> n, active |-> 1]]
                     /\ g_arr_len' = acq.len
                     /\ g_arr_cap' = r.cap
                     /\ g_free_ids' = acq.free
                     /\ heap' = h1
                     /\ regs' = [regs EXCEPT ![ABC_B(w)] = id]
                     /\ pc' = NextPc
                     /\ hist' = Append(hist, [ev |-> "alloc", id |-> id, dirty |-> FALSE])
                     /\ written' = written
                     /\ UNCHANGED <<exitVars, g_free_cap, ioVars, toolVars>>

OpAlloc ==
    /\ Running
    /\ PcInBounds(pc, g_arr[0].len)
    /\ \E w \in FetchWords :
        /\ OPC(w) = 8
        /\ ExecAlloc(w)
        /\ Tick(w)

(* 9: abandonment.  The realloc of freeids_reserve (when the stack must grow)
   succeeds or fails. *)
ExecDealloc(w) ==
        /\ LET id == regs[ABC_C(w)]
           IN IF DeallocInvalid(g_arr, g_arr_len, id)
              THEN Trap("dealloc: invalid or inactive id")
              ELSE LET h1 == HeapFree(heap, g_arr[id].data)
                       arr1 == Abandoned(g_arr, id)
                       need == Len(g_free_ids) + 1
                   IN \E reallocOk \in (IF g_free_cap >= need THEN {TRUE} ELSE BOOLEAN) :
                        IF ~reallocOk
                        THEN /\ die("out of memory (free_ids)", arr1, g_free_ids, h1)
                             /\ hist' = Append(hist, [ev |-> "free", id |-> id,
                                                   dirty |-> Dirty(g_arr, heap, id)])
                             /\ written' = Forget(written, id)
                        ELSE /\ g_arr' = arr1
                             /\ heap' = h1
                             /\ g_free_cap' = freeids_reserve(g_free_cap, need)
                             /\ g_free_ids' = id_release(g_free_ids, id)
                             /\ pc' = NextPc
                             /\ hist' = Append(hist, [ev |-> "free", id |-> id,
                                                   dirty |-> Dirty(g_arr, heap, id)])
                             /\ written' = Forget(written, id)
                             /\ UNCHANGED <<exitVars, g_arr_len, g_arr_cap, regs, ioVars, toolVars>>

OpDealloc ==
    /\ Running
    /\ PcInBounds(pc, g_arr[0].len)
    /\ \E w \in FetchWords :
        /\ OPC(w) = 9
        /\ ExecDealloc(w)
        /\ Tick(w)

EOF == -1

(* the bytes standard input is drawn from *)
InBytes == {65, 200}

(* what getchar may return now: the bytes standard input can deliver *)
GetcharResults ==
    IF eof \/ Len(input) >= MaxInput THEN {EOF} ELSE InBytes \cup {EOF}

(* opcode 10 without its check *)
OutInvalid_Never(v) == FALSE

(* opcode 10 taking a byte for a signed char *)
OutInvalid_SignedByte(v) == v > 127

(* line 446: opcode 10 refuses the value *)
OutInvalid(v) == v > 255

(* 10: output *)
ExecOut(w) ==
        /\ LET v == regs[ABC_C(w)]
           IN IF OutInvalid(v) THEN Trap("output: value > 255")
              ELSE /\ output' = Append(output, v % 256)
                   /\ pc' = NextPc
                   /\ UNCHANGED <<exitVars, regs, poolVars, input, eof, file, fpos, hist,
                                written, toolVars>>

OpOut ==
    /\ Running
    /\ PcInBounds(pc, g_arr[0].len)
    /\ \E w \in FetchWords :
        /\ OPC(w) = 10
        /\ ExecOut(w)
        /\ Tick(w)

(* opcode 11 widening the byte as a signed char *)
InByte_SignExtend(ch) == IF ch % 256 > 127 THEN (WordMod - 256) + (ch % 256) ELSE ch % 256

(* line 462, (uint32_t)(unsigned char)ch: the word opcode 11 stores for a byte *)
InByte(ch) == ch % 256

(* 11: input.  getchar blocks until standard input delivers a byte or ends;
   after end-of-file it keeps returning EOF. *)
ExecIn(w) ==
        /\ \E ch \in GetcharResults :
            /\ IF ch = EOF
               THEN /\ regs' = [regs EXCEPT ![ABC_C(w)] = AllOnes]
                    /\ input' = input
                    /\ eof' = TRUE
               ELSE /\ regs' = [regs EXCEPT ![ABC_C(w)] = InByte(ch)]
                    /\ input' = Append(input, ch)
                    /\ eof' = eof
        /\ pc' = NextPc
        /\ UNCHANGED <<exitVars, poolVars, output, file, fpos, hist, written, toolVars>>

OpIn ==
    /\ Running
    /\ PcInBounds(pc, g_arr[0].len)
    /\ \E w \in FetchWords :
        /\ OPC(w) = 11
        /\ ExecIn(w)
        /\ Tick(w)

(* opcode 12 duplicating whatever r[B] names, array 0 included *)
LoadProgCopies_Always(id) == TRUE

(* line 473: opcode 12 replaces array 0 *)
LoadProgCopies(id) == id # 0

(* opcode 12 accepting an abandoned identifier *)
LoadProgInvalid_IgnoresActive(arr, alen, id) == id >= alen

(* opcode 12 refusing an array of length 0 *)
LoadProgInvalid_RejectsEmpty(arr, alen, id) ==
    id >= alen \/ arr[id].active = 0 \/ arr[id].len = 0

(* line 474: opcode 12 refuses the identifier *)
LoadProgInvalid(arr, alen, id) == id >= alen \/ arr[id].active = 0

(* a duplicate that shares the block of the source *)
Duplicate_Alias(h, src) == [data |-> src, heap |-> h]

(* a duplicate that is allocated but never filled *)
Duplicate_Zeroed(h, src) ==
    [data |-> NewAddr(h), heap |-> HeapPut(h, NewAddr(h), Zeros(Len(h[src])))]

(* lines 483-485: malloc and memcpy of the block at src (n > 0) *)
Duplicate(h, src) == [data |-> NewAddr(h), heap |-> HeapPut(h, NewAddr(h), h[src])]

(* 12: load program.  malloc of the duplicate (when n > 0) succeeds or fails. *)
ExecLoadProg(w) ==
        /\ LET id == regs[ABC_B(w)]
               new_pc == regs[ABC_C(w)]
           IN IF LoadProgCopies(id)
              THEN IF LoadProgInvalid(g_arr, g_arr_len, id)
                   THEN Trap("loadprog: inactive id")
                   ELSE LET n == g_arr[id].len
                            dup == IF n > 0 THEN Duplicate(heap, g_arr[id].data)
                                   ELSE [data |-> NULL, heap |-> heap]
                        IN \E mallocOk \in (IF n > 0 THEN AllocOutcomes(n) ELSE {TRUE}) :
                             IF ~mallocOk THEN Trap("loadprog: OOM")
                             ELSE /\ heap' = HeapFree(dup.heap, g_arr[0].data)
                                  /\ g_arr' = [g_arr EXCEPT ![0] =
                                                  [data |-> dup.data, len |-> n, active |-> 1]]
                                  /\ pc' = new_pc
                                  /\ written' = Forget(written, 0)
                                  /\ UNCHANGED <<exitVars, regs, g_arr_len, g_arr_cap,
                                                 g_free_ids, g_free_cap, ioVars, toolVars, hist>>
              ELSE /\ pc' = new_pc
                   /\ UNCHANGED <<exitVars, regs, poolVars, ioVars, toolVars, hist, written>>

OpLoadProg ==
    /\ Running
    /\ PcInBounds(pc, g_arr[0].len)
    /\ \E w \in FetchWords :
        /\ OPC(w) = 12
        /\ ExecLoadProg(w)
        /\ Tick(w)

(* an unknown opcode taken for an instruction that does nothing *)
ExecInvalid_Skip(w) ==
        /\ RegStep(regs)

(* default: opcodes 14 and 15 *)
ExecInvalid(w) ==
        /\ Trap("invalid opcode")

OpInvalid ==
    /\ Running
    /\ PcInBounds(pc, g_arr[0].len)
    /\ \E w \in FetchWords :
        /\ OPC(w) > 13
        /\ ExecInvalid(w)
        /\ Tick(w)

(* lines 313-502: the instruction a fetched word w selects *)
Exec(w) ==
    \/ OPC(w) = 13 /\ ExecLoadImm(w)
    \/ OPC(w) = 0 /\ ExecCmov(w)
    \/ OPC(w) = 1 /\ ExecIndex(w)
    \/ OPC(w) = 2 /\ ExecUpdate(w)
    \/ OPC(w) = 3 /\ ExecAdd(w)
    \/ OPC(w) = 4 /\ ExecMul(w)
    \/ OPC(w) = 5 /\ ExecDiv(w)
    \/ OPC(w) = 6 /\ ExecNand(w)
    \/ OPC(w) = 7 /\ ExecHalt(w)
    \/ OPC(w) = 8 /\ ExecAlloc(w)
    \/ OPC(w) = 9 /\ ExecDealloc(w)
    \/ OPC(w) = 10 /\ ExecOut(w)
    \/ OPC(w) = 11 /\ ExecIn(w)
    \/ OPC(w) = 12 /\ ExecLoadProg(w)
    \/ OPC(w) > 13 /\ ExecInvalid(w)

----------------------------------------------------------------------------
(* The programs and inputs explored *)

cmov(A, B, C) == EncABC(0, A, B, C)
aidx(A, B, C) == EncABC(1, A, B, C)
aupd(A, B, C) == EncABC(2, A, B, C)
add(A, B, C) == EncABC(3, A, B, C)
mul(A, B, C) == EncABC(4, A, B, C)
div(A, B, C) == EncABC(5, A, B, C)
nand(A, B, C) == EncABC(6, A, B, C)
halt == EncABC(7, 0, 0, 0)
alloc(B, C) == EncABC(8, 0, B, C)
dealloc(C) == EncABC(9, 0, 0, C)
out(C) == EncABC(10, 0, 0, C)
in(C) == EncABC(11, 0, 0, C)
loadprog(B, C) == EncABC(12, 0, B, C)
loadimm(A, imm) == EncLI(A, imm)

(* Every program of at most MaxPoolLen words over the registry instructions.
   r0 stays 0; r1 and r2 hold the identifiers; alloc(2, 2) takes the
   identifier in r2 as the next length. *)
PoolAlphabet ==
    {alloc(1, 0), alloc(2, 2), dealloc(1), dealloc(2), aupd(2, 0, 2), loadprog(0, 0)}

(* Every program of at most MaxProgLen words over one instruction of each
   opcode and an invalid word. *)
Alphabet ==
    {loadimm(1, 1), cmov(4, 1, 1), aidx(4, 2, 0), aupd(2, 0, 1), add(1, 1, 1),
     mul(3, 1, 1), div(4, 3, 1), nand(5, 1, 3), halt, alloc(2, 1), dealloc(2),
     out(1), in(1), loadprog(2, 0), EncABC(14, 0, 0, 0)}

RECURSIVE SeqsUpTo(_, _)
SeqsUpTo(S, n) ==
    IF n = 0 THEN {<<>>}
    ELSE LET shorter == SeqsUpTo(S, n - 1)
         IN shorter \cup {Append(p, x) : p \in {q \in shorter : Len(q) = n - 1}, x \in S}

(* The end-to-end scenarios of the documentation and the reuse orders *)
Scenarios ==
    { <<halt>>,
      <<loadimm(0, 65), out(0), halt>>,
      <<loadimm(0, 10), loadimm(1, 0), div(2, 0, 1), halt>>,
      <<loadimm(1, 3), loadimm(2, 1), loadimm(3, 99), alloc(4, 1), aupd(4, 2, 3),
        aidx(5, 4, 2), dealloc(4), halt>>,
      <<loadimm(1, 2), alloc(2, 1), loadimm(3, halt \div 64), loadimm(4, 64),
        mul(3, 3, 4), aupd(2, 0, 3), loadprog(2, 0)>>,
      <<in(0), halt>>,
      <<alloc(1, 0), alloc(2, 0), alloc(3, 0), dealloc(1), dealloc(3),
        alloc(4, 0), alloc(5, 0), alloc(6, 0), halt>>,
      <<alloc(1, 0), alloc(2, 0), alloc(3, 0), dealloc(2), dealloc(1),
        dealloc(3), alloc(4, 0), alloc(5, 0), alloc(6, 0)>>,
      <<loadimm(1, 1), alloc(2, 1), aupd(2, 0, 2), dealloc(2), alloc(3, 1),
        aidx(4, 3, 0), loadprog(3, 0)>>,
      <<loadimm(1, 2), loadprog(0, 1), halt>>,
      <<loadimm(1, 3), loadprog(0, 1), out(0), halt>>,
      <<loadimm(2, 5), loadprog(2, 0)>>,
      <<alloc(2, 0), loadprog(2, 2)>>,
      <<loadimm(0, 7), loadimm(1, 2), div(2, 0, 1), halt>>,
      <<loadimm(1, 2), alloc(2, 1), loadimm(3, 9), loadimm(4, 1), aupd(2, 0, 3),
        aupd(2, 4, 4), aidx(5, 2, 0), halt>>,
      <<loadimm(1, 127), mul(1, 1, 1), mul(1, 1, 1), loadimm(2, 3), nand(2, 1, 2),
        add(1, 2, 2), halt>>,
      \* array 1 is given one instruction, loaded, and the copy runs it:
      \* an update of array 0, an update of array 1, the abandonment of array 1
      <<loadimm(1, 1), alloc(2, 1), loadimm(3, aupd(0, 0, 0) \div 64), loadimm(4, 64),
        mul(3, 3, 4), add(3, 3, 1), aupd(2, 0, 3), loadprog(2, 0)>>,
      <<loadimm(1, 1), alloc(2, 1), loadimm(3, aupd(2, 0, 0) \div 64), loadimm(4, 64),
        mul(3, 3, 4), aupd(2, 0, 3), loadprog(2, 0)>>,
      <<loadimm(1, 1), alloc(0, 1), loadimm(4, 16), mul(4, 4, 4),
        loadimm(3, dealloc(0) \div 256), mul(3, 3, 4), aupd(0, 7, 3), loadprog(0, 7)>>,
      \* a conditional move on r0 = 0, then one on r1 = 5
      <<loadimm(1, 5), cmov(2, 1, 0), cmov(3, 1, 1), halt>> }

(* the word w with every bit between the A field and the opcode set (bits
   9..27 of a 32-bit word); a load-immediate has no such bits *)
WithUnusedBits(w) == IF OPC(w) = 13 THEN w ELSE w + (Pow2(OpShift) - 512)

Programs ==
    Scenarios
    \cup {[i \in DOMAIN p |-> WithUnusedBits(p[i])] : p \in Scenarios}
    \cup (SeqsUpTo(PoolAlphabet, MaxPoolLen) \ {<<>>})
    \cup (SeqsUpTo(Alphabet, MaxProgLen) \ {<<>>})

----------------------------------------------------------------------------
(* Boot: main has read the binary into a block and called arrays_boot *)

(* line 257: the block main reads the binary into *)
BootBlock == NewAddr(<<>>)

(* lines 277-281: the machine at its first cycle, array 0 holding program *)
Boot(program) ==
    LET words == BootBlock
        boot == arrays_boot(words, Len(program))
    IN /\ state = "RUN"
       /\ diag = ""
       /\ exitcode = -1
       /\ regs = [i \in 0 .. 7 |-> 0]
       /\ pc = 0
       /\ heap = HeapPut(<<>>, words, program)
       /\ g_arr = boot.arr
       /\ g_arr_len = boot.len
       /\ g_arr_cap = boot.cap
       /\ g_free_ids = <<>>
       /\ g_free_cap = 0
       /\ input = <<>>
       /\ eof = FALSE
       /\ output = <<>>
       /\ file = <<>>
       /\ fpos = 0
       /\ cycles = 0
       /\ hist = <<>>
       /\ written = [p \in {} |-> 0]
       /\ last = [w |-> -2, pc |-> 0, len0 |-> Len(program),
                  regs |-> [i \in 0 .. 7 |-> 0], arr |-> boot.arr, alen |-> boot.len,
                  free |-> <<>>, heap |-> HeapPut(<<>>, words, program),
                  input |-> <<>>, output |-> <<>>]

Init == \E program \in Programs : Boot(program) /\ ToolIdle

Next ==
    \/ PcTrap
    \/ OpLoadImm
    \/ OpCmov
    \/ OpIndex
    \/ OpUpdate
    \/ OpAdd
    \/ OpMul
    \/ OpDiv
    \/ OpNand
    \/ OpHalt
    \/ OpAlloc
    \/ OpDealloc
    \/ OpOut
    \/ OpIn
    \/ OpLoadProg
    \/ OpInvalid

Spec == Init /\ [][Next]_vars

----------------------------------------------------------------------------
(* Loading the binary: main from the opening of the file to the first cycle
   (lines 221-281).  A byte of the file is ByteBits wide and a word is four
   bytes, as in the source with ByteBits = 8. *)

(* the bytes the program files are made of *)
FileBytes == {0, 1, Pow2(ByteBits) - 1}

Files == UNION {[1 .. n -> FileBytes] : n \in 0 .. MaxFileLen}

(* a word of the block malloc returned that was not stored yet *)
UNINIT == -1

(* four bytes read as a word, least significant byte first *)
be32_from_LittleEndian(b) ==
    b[4] * Pow2(3 * ByteBits) + b[3] * Pow2(2 * ByteBits) + b[2] * Pow2(ByteBits) + b[1]

(* be32_from: four bytes as a big-endian word *)
be32_from(b) ==
    b[1] * Pow2(3 * ByteBits) + b[2] * Pow2(2 * ByteBits) + b[3] * Pow2(ByteBits) + b[4]

(* the file is opened; nothing of the machine exists yet *)
BootInit ==
    /\ state = "BOOT"
    /\ diag = ""
    /\ exitcode = -1
    /\ regs = <<>>
    /\ pc = 0
    /\ heap = <<>>
    /\ g_arr = <<>>
    /\ g_arr_len = 0
    /\ g_arr_cap = 0
    /\ g_free_ids = <<>>
    /\ g_free_cap = 0
    /\ input = <<>>
    /\ eof = FALSE
    /\ output = <<>>
    /\ file \in Files
    /\ fpos = 0
    /\ cycles = 0
    /\ hist = <<>>
    /\ written = [p \in {} |-> 0]
    /\ last = [w |-> -2]
    /\ ToolIdle

(* lines 228-262: the size of the file is taken and checked, and the block
   for the words is allocated; fseeko/ftello and malloc succeed or fail *)
BootSize ==
    /\ state = "BOOT"
    /\ LET size == Len(file)
           nwords == size \div 4
           words == NewAddr(heap)
       IN \E sys \in {"ok", "fseeko failed", "ftello failed", "fseeko rewind failed"} :
          \E mallocOk \in BOOLEAN :
            IF sys # "ok" THEN die(sys, g_arr, g_free_ids, heap)
            ELSE IF size = 0 THEN die(".um file is empty", g_arr, g_free_ids, heap)
            ELSE IF size % 4 # 0
            THEN die(".um size not divisible by 4", g_arr, g_free_ids, heap)
            ELSE IF ~mallocOk THEN die("out of memory", g_arr, g_free_ids, heap)
            ELSE /\ heap' = HeapPut(heap, words, [i \in 1 .. nwords |-> UNINIT])
                 /\ state' = "READ"
                 /\ UNCHANGED <<diag, exitcode, regs, pc, g_arr, g_arr_len, g_arr_cap,
                                g_free_ids, g_free_cap, ioVars, toolVars>>
    /\ UNCHANGED <<cycles, last, hist, written>>

(* lines 266-274: one turn of the reading loop; fread delivers the four
   bytes or fewer *)
BootRead ==
    /\ state = "READ"
    /\ fpos < Len(file)
    /\ LET words == BootBlock
           i == fpos \div 4
       IN \E got \in {4, 0} :
            IF got # 4
            THEN die("short read", g_arr, g_free_ids, HeapFree(heap, words))
            ELSE /\ heap' = [heap EXCEPT ![words][i + 1] =
                                be32_from(SubSeq(file, fpos + 1, fpos + 4))]
                 /\ fpos' = fpos + 4
                 /\ UNCHANGED <<exitVars, regs, pc, g_arr, g_arr_len, g_arr_cap,
                                g_free_ids, g_free_cap, input, eof, output, file,
                                toolVars>>
    /\ UNCHANGED <<cycles, last, hist, written>>

(* lines 275-281: the file is closed, arrays_boot installs the block as array
   0 (the realloc of arr_reserve succeeds or fails), the registers and PC
   are created *)
BootArrays ==
    /\ state = "READ"
    /\ fpos = Len(file)
    /\ LET words == BootBlock
           nwords == Len(file) \div 4
           boot == arrays_boot(words, nwords)
       IN \E reallocOk \in BOOLEAN :
            IF ~reallocOk THEN die("out of memory (arr)", g_arr, g_free_ids, heap)
            ELSE /\ g_arr' = boot.arr
                 /\ g_arr_len' = boot.len
                 /\ g_arr_cap' = boot.cap
                 /\ regs' = [i \in 0 .. 7 |-> 0]
                 /\ pc' = 0
                 /\ state' = "RUN"
                 /\ UNCHANGED <<diag, exitcode, g_free_ids, g_free_cap, heap, ioVars, toolVars>>
    /\ UNCHANGED <<cycles, last, hist, written>>

BootNext ==
    \/ BootSize
    \/ BootRead
    \/ BootArrays

BootSpec == BootInit /\ [][BootNext]_vars

----------------------------------------------------------------------------
(* The assembler (src/src/asm.c) and the disassembler (src/src/disasm.c).

   A text file is a sequence of lines, a line is the sequence of its tokens
   (the pieces next_token finds between white space) and a token is a
   sequence of characters, each a string of length 1.  unsigned and uint32_t
   are WordBits wide, long and unsigned long twice that (LP64). *)

LongBits == 2 * WordBits
ULONG_MAX == Pow2(LongBits) - 1
LONG_MAX == Pow2(LongBits - 1) - 1

(* the printing ASCII characters: codes 33 .. 95 and 97 .. 126 *)
PrintableLow ==
    <<"!", "\"", "#", "$", "%", "&", "'", "(", ")", "*", "+", ",",
      "-", ".", "/", "0", "1", "2", "3", "4", "5", "6", "7", "8",
      "9", ":", ";", "<", "=", ">", "?", "@", "A", "B", "C", "D",
      "E", "F", "G", "H", "I", "J", "K", "L", "M", "N", "O", "P",
      "Q", "R", "S", "T", "U", "V", "W", "X", "Y", "Z", "[", "\\",
      "]", "^", "_">>

PrintableHigh ==
    <<"a", "b", "c", "d", "e", "f", "g", "h", "i", "j", "k", "l",
      "m", "n", "o", "p", "q", "r", "s", "t", "u", "v", "w", "x",
      "y", "z", "{", "|", "}", "~">>

CharCode(c) ==
    IF \E i \in 1 .. Len(PrintableLow) : PrintableLow[i] = c
    THEN 32 + (CHOOSE i \in 1 .. Len(PrintableLow) : PrintableLow[i] = c)
    ELSE 96 + (CHOOSE i \in 1 .. Len(PrintableHigh) : PrintableHigh[i] = c)
CharOf(code) == IF code < 96 THEN PrintableLow[code - 32] ELSE PrintableHigh[code - 96]

isalnum(c) == c # "" /\ CharCode(c) \in (48 .. 57) \cup (65 .. 90) \cup (97 .. 122)

(* the value of the character with code k as a digit of a number, or -1 *)
DigitOfCode(k) ==
    IF k \in 48 .. 57 THEN k - 48
    ELSE IF k \in 97 .. 122 THEN k - 87
    ELSE IF k \in 65 .. 90 THEN k - 55
    ELSE -1

DigitVal(c) == IF c = "" THEN -1 ELSE DigitOfCode(CharCode(c))

IsDigitIn(c, base) == DigitVal(c) \in 0 .. (base - 1)

(* the character at position i of token t, "" for the terminating NUL *)
At(t, i) == IF i >= 1 /\ i <= Len(t) THEN t[i] ELSE ""

(* one more digit d: the value so far, or max + 1 once it exceeds max *)
Accumulate(acc, d, base, max) ==
    IF acc > (max - d) \div base THEN max + 1 ELSE acc * base + d

(* the digits of t from position i on in the given base: their value and
   the position of the first character that is not a digit *)
RECURSIVE ScanDigits(_, _, _, _, _)
ScanDigits(t, i, base, max, acc) ==
    IF IsDigitIn(At(t, i), base)
    THEN ScanDigits(t, i + 1, base, max, Accumulate(acc, DigitVal(t[i]), base, max))
    ELSE [val |-> acc, end |-> i]

(* the length of the sign at position from *)
SignLen(t, from) == IF At(t, from) \in {"+", "-"} THEN 1 ELSE 0

LongLimit(neg) == IF neg THEN LONG_MAX + 1 ELSE LONG_MAX

strtol_value(neg, i0, lim, s) ==
    IF s.end = i0 THEN [val |-> 0, end |-> 1]
    ELSE IF s.val > lim THEN [val |-> IF neg THEN 0 - lim ELSE lim, end |-> s.end]
    ELSE [val |-> IF neg THEN 0 - s.val ELSE s.val, end |-> s.end]

strtol_signed(t, neg, i0) ==
    strtol_value(neg, i0, LongLimit(neg), ScanDigits(t, i0, 10, LongLimit(neg), 0))

(* strtol(t, &e, 10): an optional sign and decimal digits; the value is
   clamped to the range of long; end is the position e points at, 1 when
   nothing was converted *)
strtol(t) == strtol_signed(t, At(t, 1) = "-", 1 + SignLen(t, 1))

(* a 0x or 0X with a hexadecimal digit behind it *)
HasHexPrefix(t, i0) ==
    /\ At(t, i0) = "0"
    /\ At(t, i0 + 1) \in {"x", "X"}
    /\ IsDigitIn(At(t, i0 + 2), 16)

BaseOf(t, i0, base, hex) ==
    IF base = 16 \/ hex THEN 16 ELSE IF At(t, i0) = "0" THEN 8 ELSE 10

strtoul_value(from, neg, i1, s) ==
    IF s.end = i1 THEN [val |-> 0, end |-> from]
    ELSE IF s.val > ULONG_MAX THEN [val |-> ULONG_MAX, end |-> s.end]
    ELSE [val |-> IF neg /\ s.val # 0 THEN (ULONG_MAX + 1) - s.val ELSE s.val,
          end |-> s.end]

strtoul_digits(t, from, neg, i1, b) ==
    strtoul_value(from, neg, i1, ScanDigits(t, i1, b, ULONG_MAX, 0))

strtoul_prefixed(t, from, base, neg, i0, hex) ==
    strtoul_digits(t, from, neg, IF hex THEN i0 + 2 ELSE i0, BaseOf(t, i0, base, hex))

strtoul_signed(t, from, base, neg, i0) ==
    strtoul_prefixed(t, from, base, neg, i0, HasHexPrefix(t, i0))

(* strtoul(t + from - 1, &e, base) for base 16 or 0: an optional sign, an
   optional 0x, with base 0 a leading 0 for octal; a negative number is
   negated as an unsigned long; overflow gives ULONG_MAX; end = from when
   nothing was converted *)
strtoul(t, from, base) ==
    strtoul_signed(t, from, base, At(t, from) = "-", from + SignLen(t, from))

(* printf("%u"): the decimal digits of n, no leading zero *)
RECURSIVE FormatU(_)
FormatU(n) ==
    IF n < 10 THEN <<CharOf(48 + n)>>
    ELSE Append(FormatU(n \div 10), CharOf(48 + (n % 10)))

(* printf("%08x"): lower-case hexadecimal digits, padded with zeros to 8 *)
HexDigit(d) == CharOf(IF d < 10 THEN 48 + d ELSE 87 + d)

RECURSIVE FormatX(_)
FormatX(n) ==
    IF n < 16 THEN <<HexDigit(n)>> ELSE Append(FormatX(n \div 16), HexDigit(n % 16))

RECURSIVE ZeroPad(_, _)
ZeroPad(t, width) == IF Len(t) >= width THEN t ELSE ZeroPad(<<"0">> \o t, width)

Format08x(n) == ZeroPad(FormatX(n), 8)

(* the keyword and the mnemonics the second pass compares with, as tokens *)
KW_label == <<"l", "a", "b", "e", "l">>
MN ==
    [loadimm |-> <<"l", "o", "a", "d", "i", "m", "m">>,
     cmov |-> <<"c", "m", "o", "v">>,
     aidx |-> <<"a", "i", "d", "x">>,
     aupd |-> <<"a", "u", "p", "d">>,
     add |-> <<"a", "d", "d">>,
     mul |-> <<"m", "u", "l">>,
     div |-> <<"d", "i", "v">>,
     nand |-> <<"n", "a", "n", "d">>,
     halt |-> <<"h", "a", "l", "t">>,
     alloc |-> <<"a", "l", "l", "o", "c">>,
     dealloc |-> <<"d", "e", "a", "l", "l", "o", "c">>,
     out |-> <<"o", "u", "t">>,
     in |-> <<"i", "n">>,
     loadprog |-> <<"l", "o", "a", "d", "p", "r", "o", "g">>]

NameCap == 128

(* is_labelch: letters, digits and _ : . - *)
is_labelch(c) == c # "" /\ (isalnum(c) \/ c \in {"_", ":", ".", "-"})

(* the least element of a set of positions *)
First(hits) == CHOOSE i \in hits : \A j \in hits : i <= j

(* the positions of the ";;" in token t *)
CommentPos(t) == {i \in 1 .. Len(t) - 1 : t[i] = ";" /\ t[i + 1] = ";"}

CutToken(t, at) == IF at = 1 THEN <<>> ELSE <<SubSeq(t, 1, at - 1)>>

CutLine(line, k) == SubSeq(line, 1, k - 1) \o CutToken(line[k], First(CommentPos(line[k])))

CommentTokens(line) == {k \in 1 .. Len(line) : CommentPos(line[k]) # {}}

(* strip_comment, then rstrip and lstrip: the line up to the first ";;" *)
strip_comment(line) ==
    IF CommentTokens(line) = {} THEN line ELSE CutLine(line, First(CommentTokens(line)))

is_blank(s) == s = <<>>

(* the longest prefix of token t made of label characters *)
RECURSIVE LabelChars(_)
LabelChars(t) ==
    IF t # <<>> /\ is_labelch(Head(t)) THEN <<Head(t)>> \o LabelChars(Tail(t)) ELSE <<>>

LabelName(name) ==
    [ok |-> Len(name) > 0,
     name |-> IF Len(name) < NameCap THEN name ELSE SubSeq(name, 1, NameCap - 1)]

(* parse_label: the keyword label, white space, @ and at least one label
   character; the name is cut at NameCap - 1 characters *)
parse_label(s) ==
    IF Len(s) >= 2 /\ s[1] = KW_label /\ At(s[2], 1) = "@"
    THEN LabelName(LabelChars(Tail(s[2])))
    ELSE [ok |-> FALSE, name |-> <<>>]

(* labels_add recording the instruction after the next one *)
labels_add_NextPc(t, name, p) == Append(t, [name |-> name, pc |-> p + 1])

(* labels_add: one more entry at the end of the table *)
labels_add(t, name, p) == Append(t, [name |-> name, pc |-> p])

LabelHit(t, hits) ==
    IF hits = {} THEN [ok |-> FALSE, pc |-> 0] ELSE [ok |-> TRUE, pc |-> t[First(hits)].pc]

(* labels_find: the first entry with that name *)
labels_find(t, name) == LabelHit(t, {i \in 1 .. Len(t) : t[i].name = name})

(* the token without its leading r or R, converted by strtol *)
RegDigits(u) == [n |-> strtol(u), len |-> Len(u)]
RegScan(t) == RegDigits(IF At(t, 1) \in {"r", "R"} THEN Tail(t) ELSE t)

RegAccept(x) ==
    [ok |-> x.n.end # 1 /\ x.n.end = x.len + 1 /\ x.n.val >= 0 /\ x.n.val <= 7,
     val |-> x.n.val]

(* parse_reg: an optional r or R, then a decimal number 0 .. 7 and nothing
   after it *)
parse_reg(t) == RegAccept(RegScan(t))

ImmFail == [ok |-> FALSE, val |-> 0]

(* the escapes of a character literal; xv is strtoul of the digits of \x *)
EscapeValue(c, xv) ==
    IF c = "n" THEN [ok |-> TRUE, v |-> 10, p |-> 4]
    ELSE IF c = "t" THEN [ok |-> TRUE, v |-> 9, p |-> 4]
    ELSE IF c = "r" THEN [ok |-> TRUE, v |-> 13, p |-> 4]
    ELSE IF c = "0" THEN [ok |-> TRUE, v |-> 0, p |-> 4]
    ELSE IF c = "\\" THEN [ok |-> TRUE, v |-> 92, p |-> 4]
    ELSE IF c = "'" THEN [ok |-> TRUE, v |-> 39, p |-> 4]
    ELSE IF c = "x" THEN [ok |-> xv.end # 4, v |-> xv.val % WordMod, p |-> xv.end]
    ELSE [ok |-> FALSE, v |-> 0, p |-> 3]

CharResult(t, r) == [ok |-> r.ok /\ At(t, r.p) = "'", val |-> r.v]

(* lines 268-308: a character literal.  A token that ends right after the
   opening quote makes the code read past the token; no source of the
   model holds one, and it is rejected here. *)
parse_char(t) ==
    CharResult(t, IF At(t, 2) = "\\" THEN EscapeValue(At(t, 3), strtoul(t, 4, 16))
                  ELSE IF At(t, 2) = "" THEN [ok |-> FALSE, v |-> 0, p |-> 3]
                  ELSE [ok |-> TRUE, v |-> CharCode(t[2]), p |-> 3])

NumberResult(t, s) ==
    [ok |-> s.end # 1 /\ s.end = Len(t) + 1 /\ s.val <= WordMod - 1, val |-> s.val]

(* lines 311-316: a number *)
parse_number(t) == NumberResult(t, strtoul(t, 1, 0))

LabelResult(f) == [ok |-> f.ok, val |-> f.pc]

(* parse_imm: @label, a character literal or a number *)
parse_imm(t, tab) ==
    IF At(t, 1) = "@" THEN LabelResult(labels_find(tab, Tail(t)))
    ELSE IF At(t, 1) = "'" THEN parse_char(t)
    ELSE parse_number(t)

(* the limit of a loadimm immediate *)
LI_MAX == Pow2(LiShift) - 1

Fail(msg) == [ok |-> FALSE, msg |-> msg, word |-> 0]
Emit(w) == [ok |-> TRUE, msg |-> "", word |-> w]

(* the register operands op A B C take their numbers from *)
ABCMnemonics == <<MN.cmov, MN.aidx, MN.aupd, MN.add, MN.mul, MN.div, MN.nand>>

(* the operation code of an ABC mnemonic *)
ABCOp(mn) == CHOOSE op \in 0 .. 6 : mn = ABCMnemonics[op + 1]

(* lines 407-518: the word for mnemonic mn with nops operand tokens, reg[n]
   the n-th token parsed as a register and imm the second one parsed as an
   immediate *)
EncodeOperands(mn, nops, reg, imm) ==
    IF mn = MN.loadimm THEN
        IF nops < 2 \/ ~reg[1].ok \/ ~imm.ok THEN Fail("loadimm syntax: loadimm A IMM")
        ELSE IF imm.val > LI_MAX THEN Fail("loadimm immediate too large (needs 25 bits)")
        ELSE Emit(EncLI(reg[1].val, imm.val))
    ELSE IF \E op \in 0 .. 6 : mn = ABCMnemonics[op + 1] THEN
        IF nops < 3 \/ ~reg[1].ok \/ ~reg[2].ok \/ ~reg[3].ok
        THEN Fail("ABC syntax: op A B C (regs 0..7)")
        ELSE Emit(EncABC(ABCOp(mn), reg[1].val, reg[2].val, reg[3].val))
    ELSE IF mn = MN.halt THEN Emit(EncABC(7, 0, 0, 0))
    ELSE IF mn = MN.alloc THEN
        IF nops < 2 \/ ~reg[1].ok \/ ~reg[2].ok THEN Fail("alloc syntax: alloc B C")
        ELSE Emit(EncABC(8, 0, reg[1].val, reg[2].val))
    ELSE IF mn = MN.dealloc THEN
        IF nops < 1 \/ ~reg[1].ok THEN Fail("dealloc syntax: dealloc C")
        ELSE Emit(EncABC(9, 0, 0, reg[1].val))
    ELSE IF mn = MN.out THEN
        IF nops < 1 \/ ~reg[1].ok THEN Fail("out syntax: out C")
        ELSE Emit(EncABC(10, 0, 0, reg[1].val))
    ELSE IF mn = MN.in THEN
        IF nops < 1 \/ ~reg[1].ok THEN Fail("in syntax: in C")
        ELSE Emit(EncABC(11, 0, 0, reg[1].val))
    ELSE IF mn = MN.loadprog THEN
        IF nops < 2 \/ ~reg[1].ok \/ ~reg[2].ok THEN Fail("loadprog syntax: loadprog B C")
        ELSE Emit(EncABC(12, 0, reg[1].val, reg[2].val))
    ELSE Fail("unknown mnemonic")

(* the body of the second pass for a line s that is neither blank nor a
   label: the word to emit, or the message of failf.  Tokens after the
   operands are not looked at. *)
Encode(s, tab) ==
    EncodeOperands(s[1], Len(s) - 1,
                   [n \in 1 .. 3 |-> IF Len(s) > n THEN parse_reg(s[n + 1]) ELSE ImmFail],
                   IF Len(s) >= 3 THEN parse_imm(s[3], tab) ELSE ImmFail)

(* emit_be32: the four bytes of a word, most significant first *)
emit_be32(w) ==
    <<(w \div 16777216) % 256, (w \div 65536) % 256, (w \div 256) % 256, w % 256>>

(* be32_from of disasm.c: four bytes as a big-endian word *)
disasm_be32_from(b) == b[1] * 16777216 + b[2] * 65536 + b[3] * 256 + b[4]

(* the header printed without the ";;" in front *)
HeaderLine_NoComment(w, p) ==
    <<<<"[", "p", "c", "=">> \o FormatU(p),
      <<"w", "o", "r", "d", "=", "0", "x">> \o Format08x(w) \o <<"]">> >>

(* printf of the header: ";; [pc=%zu word=0x%08x]" *)
HeaderLine(w, p) ==
    <<<<";", ";">>,
      <<"[", "p", "c", "=">> \o FormatU(p),
      <<"w", "o", "r", "d", "=", "0", "x">> \o Format08x(w) \o <<"]">> >>

(* printf of an unknown operation: ";; UNKNOWN op=%u (raw=0x%08x)" *)
UnknownLine(w) ==
    <<<<";", ";">>, <<"U", "N", "K", "N", "O", "W", "N">>, <<"o", "p", "=">> \o FormatU(OPC(w)),
      <<"(", "r", "a", "w", "=", "0", "x">> \o Format08x(w) \o <<")">> >>

(* B and C printed in each other's place *)
Fields_SwappedBC(w) ==
    [A |-> FormatU(ABC_A(w)), B |-> FormatU(ABC_C(w)), C |-> FormatU(ABC_B(w))]

(* the fields of a word, each printed with %u *)
Fields(w) == [A |-> FormatU(ABC_A(w)), B |-> FormatU(ABC_B(w)), C |-> FormatU(ABC_C(w))]

InsnLine(w, op, f) ==
    IF op = 13 THEN <<MN.loadimm, FormatU(LI_A(w)), FormatU(LI_VAL(w))>>
    ELSE IF op <= 6 THEN <<ABCMnemonics[op + 1], f.A, f.B, f.C>>
    ELSE IF op = 7 THEN <<MN.halt>>
    ELSE IF op = 8 THEN <<MN.alloc, f.B, f.C>>
    ELSE IF op = 9 THEN <<MN.dealloc, f.C>>
    ELSE IF op = 10 THEN <<MN.out, f.C>>
    ELSE IF op = 11 THEN <<MN.in, f.C>>
    ELSE IF op = 12 THEN <<MN.loadprog, f.B, f.C>>
    ELSE UnknownLine(w)

(* print_insn: the header comment and the line of the instruction *)
print_insn(w, p) == <<HeaderLine(w, p), InsnLine(w, OPC(w), Fields(w))>>

(* ---- the tool chain: asm, then disasm on its output, then asm on the
   listing; or disasm on a given binary, then asm on the listing ---- *)

umVars == <<regs, g_arr, g_arr_len, g_arr_cap, g_free_ids, g_free_cap, heap,
            input, eof, output, fpos, cycles, last, hist, written>>

(* a register token rN and the tokens of the immediates, with the number
   each literal denotes *)
RTok(n) == <<"r">> \o FormatU(n)
HexTok(v) == <<"0", "x">> \o FormatX(v)
HexCharTok(v) == <<"'", "\\", "x">> \o FormatX(v) \o <<"'">>

ImmLiterals ==
    {[tok |-> FormatU(v), value |-> v] : v \in {0, 1, LI_MAX, LI_MAX + 1, WordMod - 1, WordMod}}
    \cup {[tok |-> HexTok(v), value |-> v] : v \in {10, LI_MAX, LI_MAX + 1}}
    \cup {[tok |-> <<"0", "1", "7">>, value |-> 15],
          [tok |-> <<"'", "A", "'">>, value |-> 65],
          [tok |-> <<"'", "\\", "n", "'">>, value |-> 10],
          [tok |-> <<"'", "\\", "'", "'">>, value |-> 39]}
    \cup {[tok |-> HexCharTok(v), value |-> v] :
              v \in {65, LI_MAX + 1, WordMod + 1, WordMod + LI_MAX + 1}}

RegLiterals ==
    {[tok |-> RTok(n), value |-> n] : n \in 0 .. 15}
    \cup {[tok |-> FormatU(n), value |-> n] : n \in 0 .. 15}
    \cup {[tok |-> <<"R">> \o FormatU(n), value |-> n] : n \in 0 .. 15}

LabelA == <<KW_label, <<"@", "a">> >>
LabelB == <<KW_label, <<"@", "b">> >>

(* every mnemonic with every combination of registers rN, and loadimm with
   every literal *)
OperandLines ==
    {<<ABCMnemonics[op + 1], RTok(a), RTok(b), RTok(c)>> :
         op \in 0 .. 6, a \in 0 .. 7, b \in 0 .. 7, c \in 0 .. 7}
    \cup {<<MN.halt>>}
    \cup {<<m, RTok(b), RTok(c)>> : m \in {MN.alloc, MN.loadprog}, b \in 0 .. 7, c \in 0 .. 7}
    \cup {<<m, RTok(c)>> : m \in {MN.dealloc, MN.out, MN.in}, c \in 0 .. 7}
    \cup {<<MN.loadimm, RTok(a), e.tok>> : a \in 0 .. 7, e \in ImmLiterals}

(* other register spellings, registers out of range, operands missing or
   in excess, an unknown mnemonic, a reference to a label never declared *)
OddLines ==
    {<<MN.out, e.tok>> : e \in RegLiterals}
    \cup {<<MN.add, RTok(1), FormatU(2), e.tok>> : e \in RegLiterals}
    \cup {<<MN.loadimm, e.tok, FormatU(3)>> : e \in RegLiterals}
    \cup {<<MN.in, <<"-", "1">> >>, <<MN.in, <<"r">> >>, <<MN.in, <<"r", "1", "x">> >>,
          <<MN.alloc, RTok(1)>>, <<MN.loadimm, RTok(1)>>, <<MN.nand, RTok(1), RTok(2)>>,
          <<MN.halt, RTok(1)>>, <<MN.out, RTok(2), RTok(3)>>,
          << <<"n", "o", "p">> >>, <<KW_label>>, <<KW_label, <<"@">> >>,
          <<MN.loadimm, RTok(1), <<"@", "c">> >>,
          <<MN.out, <<"r", "4", ";", ";", "x">>, <<"y">> >>}

(* the lines of the sources with labels *)
LabelAlphabet ==
    {LabelA, LabelB, <<MN.halt>>,
     <<MN.loadimm, RTok(1), <<"@", "a">> >>, <<MN.loadimm, RTok(2), <<"@", "b">> >>,
     << <<";", ";">>, <<"x">> >>}

(* a label behind LI_MAX + 1 instructions *)
FarLabelSource ==
    [i \in 1 .. LI_MAX + 1 |-> <<MN.halt>>] \o <<LabelA, <<MN.loadimm, RTok(1), <<"@", "a">> >> >>

Sources ==
    {<<l>> : l \in OperandLines \cup OddLines}
    \cup SeqsUpTo(LabelAlphabet, MaxSrcLen)
    \cup {FarLabelSource}

(* the words of the binaries handed to the disassembler: every opcode, with
   and without bits set in the fields the opcode does not use *)
ListedWords ==
    {EncABC(op, a, b, c) + j * (Pow2(OpShift) - 512) :
         op \in (0 .. 15) \ {13}, a \in {0, 5}, b \in {0, 6}, c \in {0, 3}, j \in {0, 1}}
    \cup {EncLI(a, v) : a \in {0, 5}, v \in {0, 9, LI_MAX}}

Binaries ==
    {emit_be32(w) : w \in ListedWords}
    \cup {emit_be32(halt) \o emit_be32(w) : w \in {loadimm(7, 10), add(1, 2, 3), 15 * Pow2(OpShift)}}
    \cup {<<0, 0, 0>>}

ToolInit ==
    /\ state = "IDLE"
    /\ diag = ""
    /\ exitcode = -1
    /\ regs = <<>>
    /\ pc = 0
    /\ heap = <<>>
    /\ g_arr = <<>>
    /\ g_arr_len = 0
    /\ g_arr_cap = 0
    /\ g_free_ids = <<>>
    /\ g_free_cap = 0
    /\ input = <<>>
    /\ eof = FALSE
    /\ output = <<>>
    /\ file = <<>>
    /\ fpos = 0
    /\ cycles = 0
    /\ hist = <<>>
    /\ written = [p \in {} |-> 0]
    /\ last = [w |-> -2]
    /\ lineno = 0
    /\ labels = <<>>
    /\ listing = <<>>
    /\ ran = <<>>
    /\ line2 = NoLine
    /\ \/ fin \in Sources /\ fout = <<>> /\ todo = <<"asm", "disasm", "reasm">>
       \/ fin = <<>> /\ fout \in Binaries /\ todo = <<"disasm", "reasm">>

(* die and failf of asm.c, die of disasm.c: the message, exit(1) *)
tool_die(msg) ==
    /\ state' = "FAILED"
    /\ diag' = msg
    /\ exitcode' = 1

(* asm main, lines 320-350: the files are opened (the output is truncated)
   and the first pass starts; the last run reads the listing of disasm *)
AsmStart ==
    /\ state = "IDLE"
    /\ todo # <<>>
    /\ Head(todo) \in {"asm", "reasm"}
    /\ \/ /\ tool_die("cannot open")
          /\ UNCHANGED <<pc, file, fin, lineno, labels, fout, listing, todo, ran, line2>>
       \/ /\ state' = "PASS1"
          /\ diag' = ""
          /\ exitcode' = -1
          /\ fin' = IF Head(todo) = "reasm" THEN listing ELSE fin
          /\ fout' = <<>>
          /\ pc' = 0
          /\ lineno' = 0
          /\ labels' = <<>>
          /\ line2' = NoLine
          /\ UNCHANGED <<file, listing, todo, ran>>
    /\ UNCHANGED umVars

(* lines 358-367 for the stripped line s *)
Pass1Line(s, label) ==
    IF is_blank(s)
    THEN /\ lineno' = lineno + 1
         /\ UNCHANGED <<exitVars, pc, labels>>
    ELSE IF label.ok
    THEN \/ /\ labels' = labels_add(labels, label.name, pc)
            /\ lineno' = lineno + 1
            /\ UNCHANGED <<exitVars, pc>>
         \/ /\ \E msg \in {"oom labels", "oom strdup"} : tool_die(msg)
            /\ UNCHANGED <<pc, labels, lineno>>
    ELSE /\ pc' = (pc + 1) % WordMod
         /\ lineno' = lineno + 1
         /\ UNCHANGED <<exitVars, labels>>

Pass1Stripped(s) == Pass1Line(s, parse_label(s))

(* asm main, lines 352-368: one line of the first pass *)
AsmPass1 ==
    /\ state = "PASS1"
    /\ lineno < Len(fin)
    /\ Pass1Stripped(strip_comment(fin[lineno + 1]))
    /\ UNCHANGED <<file, fin, fout, listing, todo, ran, line2>>
    /\ UNCHANGED umVars

(* asm main, lines 370-383: the input is rewound for the second pass *)
AsmRewind ==
    /\ state = "PASS1"
    /\ lineno = Len(fin)
    /\ \/ /\ tool_die("rewind failed")
          /\ UNCHANGED lineno
       \/ /\ state' = "PASS2"
          /\ lineno' = 0
          /\ UNCHANGED <<diag, exitcode>>
    /\ line2' = NoLine
    /\ UNCHANGED <<pc, file, fin, labels, fout, listing, todo, ran>>
    /\ UNCHANGED umVars

(* what the second pass did with line lineno + 1 *)
Handled(s, insn, ok, word) ==
    [lineno |-> lineno + 1, s |-> s, insn |-> insn, ok |-> ok, word |-> word, at |-> Len(fout)]

(* lines 398-520 for an instruction line s with r = Encode(s, labels) *)
Pass2Insn(s, r) ==
    IF ~r.ok
    THEN /\ tool_die(r.msg)
         /\ line2' = Handled(s, TRUE, FALSE, 0)
         /\ UNCHANGED fout
    ELSE \/ /\ fout' = fout \o emit_be32(r.word)
            /\ line2' = Handled(s, TRUE, TRUE, r.word)
            /\ UNCHANGED exitVars
         \/ /\ tool_die("write failed")
            /\ line2' = Handled(s, TRUE, FALSE, 0)
            /\ UNCHANGED fout

(* lines 392-396 for the stripped line s *)
Pass2Line(s, label) ==
    IF is_blank(s) \/ label.ok
    THEN /\ line2' = Handled(s, FALSE, TRUE, 0)
         /\ UNCHANGED <<exitVars, fout>>
    ELSE Pass2Insn(s, Encode(s, labels))

Pass2Stripped(s) == Pass2Line(s, parse_label(s))

(* asm main, lines 385-521: one line of the second pass *)
AsmPass2 ==
    /\ state = "PASS2"
    /\ lineno < Len(fin)
    /\ lineno' = lineno + 1
    /\ Pass2Stripped(strip_comment(fin[lineno + 1]))
    /\ UNCHANGED <<pc, file, fin, labels, listing, todo, ran>>
    /\ UNCHANGED umVars

(* asm main, lines 523-528: the label table is freed, the files are closed,
   return 0 *)
AsmExit ==
    /\ state = "PASS2"
    /\ lineno = Len(fin)
    /\ state' = "IDLE"
    /\ exitcode' = 0
    /\ labels' = <<>>
    /\ todo' = Tail(todo)
    /\ ran' = Append(ran, "asm")
    /\ UNCHANGED <<diag, pc, file, fin, lineno, fout, listing, line2>>
    /\ UNCHANGED umVars

(* disasm main and read_um, lines 75-130 and 213-224: the binary the
   assembler wrote is opened and its size checked *)
DisasmStart ==
    /\ state = "IDLE"
    /\ todo # <<>>
    /\ Head(todo) = "disasm"
    /\ file' = fout
    /\ listing' = <<>>
    /\ pc' = 0
    /\ \/ /\ \E msg \in {"cannot open", "fseeko failed", "ftello failed", "rewind failed",
                         "out of memory", "short read"} : tool_die(msg)
       \/ IF Len(fout) = 0 \/ Len(fout) % 4 # 0
          THEN tool_die(".um size invalid")
          ELSE /\ state' = "DISASM"
               /\ diag' = ""
               /\ exitcode' = -1
    /\ UNCHANGED <<fin, lineno, labels, fout, todo, ran, line2>>
    /\ UNCHANGED umVars

(* disasm main, lines 226-228: one word is decoded and printed *)
DisasmWord ==
    /\ state = "DISASM"
    /\ pc < Len(file) \div 4
    /\ listing' = listing \o print_insn(disasm_be32_from(SubSeq(file, 4 * pc + 1, 4 * pc + 4)),
                                         pc)
    /\ pc' = pc + 1
    /\ UNCHANGED <<exitVars, file, fin, lineno, labels, fout, todo, ran, line2>>
    /\ UNCHANGED umVars

(* disasm main, lines 230-231: return 0 *)
DisasmExit ==
    /\ state = "DISASM"
    /\ pc = Len(file) \div 4
    /\ state' = "IDLE"
    /\ exitcode' = 0
    /\ todo' = Tail(todo)
    /\ ran' = Append(ran, "disasm")
    /\ UNCHANGED <<diag, pc, file, fin, lineno, labels, fout, listing, line2>>
    /\ UNCHANGED umVars

ToolNext ==
    \/ AsmStart
    \/ AsmPass1
    \/ AsmRewind
    \/ AsmPass2
    \/ AsmExit
    \/ DisasmStart
    \/ DisasmWord
    \/ DisasmExit

ToolSpec == ToolInit /\ [][ToolNext]_vars

----------------------------------------------------------------------------
(* The machine with nearly every identifier issued.  The loop below
   allocates an array of length 0 per turn and leaves when the identifier
   it got is the last one a word can hold; the machine is taken up after k
   turns, at the head of the loop (pc = 0) or, after the last turn, behind
   it (pc = 5), when the identifiers 1..k are live, each with no block, and
   the slot table has grown by doubling. *)

FillLoop ==
    <<alloc(1, 0),        \* r1 <- a fresh identifier
      nand(2, 1, 1),      \* r2 <- ~r1, 0 when r1 is all ones
      loadimm(4, 5),      \* r4 <- the address behind the loop
      cmov(4, 0, 2),      \* r4 <- 0, the head of the loop, unless r2 = 0
      loadprog(0, 4)>>    \* jump to r4

(* what runs behind the loop, with every identifier live *)
FillTails ==
    {<<>>, <<alloc(3, 0)>>, <<loadimm(5, 1), alloc(3, 5)>>, <<alloc(3, 1)>>,
     <<dealloc(1), alloc(3, 0), alloc(5, 0)>>, <<dealloc(1), alloc(0, 0), aidx(6, 0, 0)>>,
     <<aidx(3, 1, 0)>>, <<aupd(1, 0, 0)>>, <<add(3, 1, 1), halt>>, <<mul(3, 1, 1)>>,
     <<div(3, 1, 1)>>, <<out(0)>>, <<in(3)>>, <<EncABC(15, 0, 0, 0)>>}

(* the turns of the loop already taken; the last turn issues AllOnes *)
FillTurns == {AllOnes - 2, AllOnes - 1, AllOnes}

(* cycles counts the cycles from here on; hist holds the k allocations *)
ExhaustInit ==
    \E tail \in FillTails, k \in FillTurns :
        LET program == FillLoop \o tail
            r == [i \in 0 .. 7 |-> IF i = 1 THEN k
                                    ELSE IF i = 2 THEN AllOnes - k
                                    ELSE IF i = 4 /\ k = AllOnes THEN 5
                                    ELSE 0]
            boot == arrays_boot(BootBlock, Len(program))
            table == arr_reserve(boot.arr, boot.cap, k + 1)
            arr == [i \in 0 .. (table.cap - 1) |->
                       IF i = 0 THEN boot.arr[0]
                       ELSE IF i <= k THEN [data |-> NULL, len |-> 0, active |-> 1]
                       ELSE ZeroSlot]
            h == HeapPut(<<>>, BootBlock, program)
        IN /\ state = "RUN"
           /\ diag = ""
           /\ exitcode = -1
           /\ regs = r
           /\ pc = r[4]
           /\ heap = h
           /\ g_arr = arr
           /\ g_arr_len = k + 1
           /\ g_arr_cap = table.cap
           /\ g_free_ids = <<>>
           /\ g_free_cap = 0
           /\ input = <<>>
           /\ eof = FALSE
           /\ output = <<>>
           /\ file = <<>>
           /\ fpos = 0
           /\ cycles = 0
           /\ hist = [i \in 1 .. k |-> [ev |-> "alloc", id |-> i, dirty |-> FALSE]]
           /\ written = [p \in {} |-> 0]
           /\ last = [w |-> loadprog(0, 4), pc |-> 4, len0 |-> Len(program), regs |-> r,
                      arr |-> arr, alen |-> k + 1, free |-> <<>>, heap |-> h,
                      input |-> <<>>, output |-> <<>>]
           /\ ToolIdle

ExhaustSpec == ExhaustInit /\ [][Next]_vars

----------------------------------------------------------------------------
(* The emulator and the disassembler on the same binary: um, then disasm *)

(* words of opcode 14 and 15, with and without bits in the fields *)
UnknownWords == {EncABC(14, 0, 0, 0), WithUnusedBits(EncABC(15, 5, 6, 3))}

(* the scenarios, and programs with an unknown word at the start, in the
   middle and at the end *)
ListedPrograms ==
    Scenarios
    \cup {<<u>> : u \in UnknownWords}
    \cup {<<u, halt>> : u \in UnknownWords}
    \cup {<<loadimm(1, 65), u, out(1), v>> : u \in UnknownWords, v \in UnknownWords}
    \cup {<<loadimm(1, 1), alloc(2, 1), aupd(2, 0, 1), u, halt>> : u \in UnknownWords}

(* the file of a program: its words, four bytes each *)
RECURSIVE BinaryOf(_)
BinaryOf(p) == IF p = <<>> THEN <<>> ELSE emit_be32(Head(p)) \o BinaryOf(Tail(p))

UmDisasmInit ==
    \E program \in ListedPrograms :
        /\ Boot(program)
        /\ fin = <<>>
        /\ lineno = 0
        /\ labels = <<>>
        /\ fout = BinaryOf(program)
        /\ listing = <<>>
        /\ todo = <<"um", "disasm">>
        /\ ran = <<>>
        /\ line2 = NoLine

(* the emulator has returned 0 or called exit(1); the next tool is started
   on the same file whatever the exit code was *)
UmExit ==
    /\ state \in {"HALTED", "FAILED"}
    /\ todo # <<>>
    /\ Head(todo) = "um"
    /\ state' = "IDLE"
    /\ todo' = Tail(todo)
    /\ ran' = IF exitcode = 0 THEN Append(ran, "um") ELSE ran
    /\ UNCHANGED <<diag, exitcode, pc, file, fin, lineno, labels, fout, listing, line2>>
    /\ UNCHANGED umVars

UmDisasmNext ==
    \/ Next
    \/ UmExit
    \/ DisasmStart
    \/ DisasmWord
    \/ DisasmExit

UmDisasmSpec == UmDisasmInit /\ [][UmDisasmNext]_vars

----------------------------------------------------------------------------
(* The last cycle, read from the snapshot it left *)

LastFetched == cycles > 0 /\ last.w >= 0
LastIsOp(o) == LastFetched /\ OPC(last.w) = o /\ o # 13
Completed(o) == LastIsOp(o) /\ state = "RUN"
LastA == ABC_A(last.w)
LastB == ABC_B(last.w)
LastC == ABC_C(last.w)

LiveIds(arr, alen) == {i \in 0 .. (alen - 1) : arr[i].active # 0}

(* the abandonments before event k of h whose identifier was not reissued since *)
Pending(h, k) ==
    {j \in 1 .. (k - 1) :
        /\ h[j].ev = "free"
        /\ \A m \in (j + 1) .. (k - 1) : ~(h[m].ev = "alloc" /\ h[m].id = h[j].id)}

(* the identifiers opcode 8 returned before event k of h *)
IssuedBefore(h, k) == {h[j].id : j \in {m \in 1 .. (k - 1) : h[m].ev = "alloc"}}

(* the identifiers returned by opcode 8 and not passed to opcode 9 since *)
Owned(h) ==
    {h[j].id : j \in {m \in 1 .. Len(h) :
        /\ h[m].ev = "alloc"
        /\ \A n \in (m + 1) .. Len(h) : ~(h[n].ev = "free" /\ h[n].id = h[m].id)}}

MaxOf(S) == CHOOSE x \in S : \A y \in S : y <= x

----------------------------------------------------------------------------
(* C1: a cycle that starts with PC >= length(array 0) traps with "PC out of
   bounds" and fetches nothing; every word fetched is the word of array 0 at
   an offset below the length array 0 has at that moment, also after
   loadprog replaced array 0. *)
C1_FetchInBounds ==
    /\ state = "RUN" => g_arr[0].len = Len(SlotBuf(g_arr, heap, 0))
    /\ cycles > 0 =>
        IF last.pc >= Len(SlotBuf(last.arr, last.heap, 0))
        THEN /\ last.w = -1
             /\ state = "FAILED"
             /\ diag = "PC out of bounds at cycle start"
        ELSE last.w = SlotBuf(last.arr, last.heap, 0)[last.pc + 1]

(* a PC trap after loadprog replaced array 0 *)
C1_Witness ==
    /\ cycles > 0
    /\ last.w = -1
    /\ state = "FAILED"
    /\ last.arr[0].data # BootBlock
    /\ last.pc >= last.arr[0].len

(* C2: whenever the loop has been left, by opcode 7, by a trap or by a host
   failure, no block of the pool is left allocated. *)
C2_ExitReleasesPool ==
    state # "RUN" => DOMAIN heap = {} /\ g_arr_cap = 0 /\ g_free_cap = 0

(* C3: the loop is left only by opcode 7 (HALTED, exit code 0) or by a
   trap or host failure of the cycle (FAILED, exit code 1); every trap
   condition of the instruction table ends in FAILED; in HALTED and FAILED
   no step is possible any more. *)
ExitMessages ==
    {"PC out of bounds at cycle start", "index: inactive array", "index: offset OOB",
     "update: inactive array", "update: offset OOB", "divide by zero", "alloc: OOM",
     "alloc: id 0 reserved", "dealloc: invalid or inactive id", "output: value > 255",
     "loadprog: inactive id", "loadprog: OOM", "invalid opcode",
     "out of memory (arr)", "out of memory (free_ids)"}

(* the last cycle met a trap condition of the instruction table *)
TrapCondition ==
    \/ last.w = -1
    \/ /\ last.w >= 0
       /\ LET op == OPC(last.w)
              rA == last.regs[LastA]
              rB == last.regs[LastB]
              rC == last.regs[LastC]
              live(id) == id < last.alen /\ last.arr[id].active # 0
          IN \/ op = 1 /\ (~live(rB) \/ rC >= last.arr[rB].len)
             \/ op = 2 /\ (~live(rA) \/ rB >= last.arr[rA].len)
             \/ op = 5 /\ rC = 0
             \/ op = 9 /\ (rC = 0 \/ ~live(rC))
             \/ op = 10 /\ rC > 255
             \/ op = 12 /\ rB # 0 /\ ~live(rB)
             \/ op > 13

(* the last cycle ran out of host memory *)
HostFailure ==
    /\ last.w >= 0
    /\ OPC(last.w) \in {8, 9, 12}
    /\ diag \in {"alloc: OOM", "out of memory (arr)", "out of memory (free_ids)",
                 "loadprog: OOM"}

C3_ExitStates ==
    /\ state \in {"RUN", "HALTED", "FAILED"}
    /\ state = "RUN" =>
        /\ exitcode = -1
        /\ cycles > 0 => last.w >= 0 /\ OPC(last.w) # 7 /\ ~TrapCondition
    /\ state = "HALTED" => exitcode = 0 /\ LastFetched /\ OPC(last.w) = 7
    /\ state = "FAILED" =>
        /\ exitcode = 1
        /\ cycles > 0
        /\ diag \in ExitMessages
        /\ TrapCondition \/ HostFailure
    /\ state # "RUN" => ~ENABLED Next

(* a trap (division by zero) and, in another run, a halt *)
C3_Witness ==
    /\ state = "FAILED"
    /\ LastFetched
    /\ OPC(last.w) = 5
    /\ last.regs[LastC] = 0
    /\ diag = "divide by zero"
    /\ exitcode = 1

(* C4: in every RUN state every live identifier other than 0 was returned
   by an earlier opcode 8 and not passed to opcode 9 since. *)
C4_LiveWasAllocated ==
    state = "RUN" => (LiveIds(g_arr, g_arr_len) \ {0}) \subseteq Owned(hist)

(* a live array beside an identifier that was abandoned and is not live *)
C4_Witness ==
    /\ state = "RUN"
    /\ LiveIds(g_arr, g_arr_len) \ {0} # {}
    /\ \E k \in DOMAIN hist :
        /\ hist[k].ev = "free"
        /\ hist[k].id \notin LiveIds(g_arr, g_arr_len)

(* C5: the identifier opcode 8 writes to r[B] was not live before the
   instruction; every array live before it keeps its slot and its words;
   no two live arrays share a block. *)
C5_AllocNotLive ==
    /\ Completed(8) =>
        /\ ~IsActive(last.arr, last.alen, regs[LastB])
        /\ \A i \in LiveIds(last.arr, last.alen) :
            /\ g_arr[i] = last.arr[i]
            /\ SlotBuf(g_arr, heap, i) = SlotBuf(last.arr, last.heap, i)
    /\ state = "RUN" =>
        \A i, j \in LiveIds(g_arr, g_arr_len) :
            i # j /\ g_arr[i].data # NULL => g_arr[i].data # g_arr[j].data

(* an allocation that reuses an abandoned identifier while another array is live *)
C5_Witness ==
    /\ Completed(8)
    /\ regs[LastB] < last.alen
    /\ LiveIds(last.arr, last.alen) \ {0} # {}
    /\ g_arr[regs[LastB]].data # NULL

(* C6: identifier 0 is live in every RUN state; opcode 8 never returns 0 and
   opcode 9 never abandons 0: with r[C] = 0 it traps. *)
C6_ZeroAlwaysLive ==
    /\ state = "RUN" => IsActive(g_arr, g_arr_len, 0)
    /\ Completed(8) => regs[LastB] # 0
    /\ \A k \in DOMAIN hist : hist[k].id # 0
    /\ LastIsOp(9) /\ last.regs[LastC] = 0 =>
        state = "FAILED" /\ diag = "dealloc: invalid or inactive id"

(* opcode 9 with r[C] = 0, trapped, after an allocation *)
C6_Witness ==
    /\ LastIsOp(9)
    /\ last.regs[LastC] = 0
    /\ state = "FAILED"
    /\ Len(hist) > 0

(* C7: whenever an identifier abandoned earlier has not been reissued,
   opcode 8 returns the most recently abandoned of them; the free-id stack
   is nonempty exactly when there is one. *)
C7_LifoReuse ==
    /\ \A k \in DOMAIN hist :
        hist[k].ev = "alloc" /\ Pending(hist, k) # {} =>
            hist[k].id = hist[MaxOf(Pending(hist, k))].id
    /\ state = "RUN" => (Len(g_free_ids) > 0 <=> Pending(hist, Len(hist) + 1) # {})

(* a then b abandoned, then b and a reissued *)
C7_Witness ==
    \E k \in DOMAIN hist :
        /\ k >= 4
        /\ hist[k - 3].ev = "free"
        /\ hist[k - 2].ev = "free"
        /\ hist[k - 1].ev = "alloc"
        /\ hist[k].ev = "alloc"
        /\ hist[k - 3].id # hist[k - 2].id
        /\ hist[k - 1].id = hist[k - 2].id
        /\ hist[k].id = hist[k - 3].id

(* C8: with no abandoned identifier waiting, opcode 8 returns the smallest
   integer >= 1 it never returned before; it returns a never-returned
   integer only then. *)
C8_FreshIds ==
    \A k \in DOMAIN hist :
        hist[k].ev = "alloc" =>
            /\ Pending(hist, k) = {} =>
                /\ hist[k].id >= 1
                /\ hist[k].id \notin IssuedBefore(hist, k)
                /\ \A n \in 1 .. (hist[k].id - 1) : n \in IssuedBefore(hist, k)
            /\ hist[k].id \notin IssuedBefore(hist, k) => Pending(hist, k) = {}

(* a fresh identifier 3 issued after an abandoned one was reused *)
C8_Witness ==
    \E k \in DOMAIN hist :
        /\ hist[k].ev = "alloc"
        /\ hist[k].id = 3
        /\ hist[k].id \notin IssuedBefore(hist, k)
        /\ \E j \in 1 .. (k - 1) : hist[j].ev = "free"

(* C9: opcode 8 leaves a live array whose length is the value r[C] had
   before the instruction, also when B = C, and whose words are all 0, also
   when the identifier was that of an abandoned array with nonzero words;
   the identifier written to r[B] is >= 1; a length of 0 is not refused. *)
C9_AllocZeroed ==
    /\ Completed(8) =>
        LET id == regs[LastB]
            n == last.regs[LastC]
        IN /\ id >= 1
           /\ IsActive(g_arr, g_arr_len, id)
           /\ g_arr[id].len = n
           /\ SlotBuf(g_arr, heap, id) = Zeros(n)
           /\ \A r \in 0 .. 7 : r # LastB => regs[r] = last.regs[r]
    /\ LastIsOp(8) /\ last.regs[LastC] = 0 /\ state = "FAILED" =>
        diag \in {"out of memory (arr)", "alloc: id 0 reserved"}

(* B = C, a length > 0, and the identifier of an abandoned array that held
   a nonzero word *)
C9_Witness ==
    /\ Completed(8)
    /\ LastB = LastC
    /\ last.regs[LastC] > 0
    /\ \E k \in DOMAIN hist :
        hist[k].ev = "free" /\ hist[k].dirty /\ hist[k].id = regs[LastB]

(* C10: opcode 9 traps when r[C] is 0 or not a live identifier; otherwise the
   identifier is no longer live, it is on top of the free-id stack, and
   every other slot and block is as before. *)
C10_Dealloc ==
    LastIsOp(9) =>
        LET id == last.regs[LastC]
        IN IF id = 0 \/ ~IsActive(last.arr, last.alen, id)
           THEN state = "FAILED" /\ diag = "dealloc: invalid or inactive id"
           ELSE /\ state = "FAILED" => diag = "out of memory (free_ids)"
                /\ state = "RUN" =>
                    /\ ~IsActive(g_arr, g_arr_len, id)
                    /\ g_free_ids = Append(last.free, id)
                    /\ g_arr_len = last.alen
                    /\ LiveIds(g_arr, g_arr_len) = LiveIds(last.arr, last.alen) \ {id}
                    /\ \A i \in 0 .. (last.alen - 1) :
                        i # id =>
                            /\ g_arr[i] = last.arr[i]
                            /\ SlotBuf(g_arr, heap, i) = SlotBuf(last.arr, last.heap, i)
                    /\ regs = last.regs

(* an identifier abandoned twice: the second opcode 9 traps *)
C10_Witness ==
    /\ LastIsOp(9)
    /\ state = "FAILED"
    /\ diag = "dealloc: invalid or inactive id"
    /\ last.regs[LastC] # 0
    /\ \E k \in DOMAIN hist : hist[k].ev = "free" /\ hist[k].id = last.regs[LastC]

(* C11: opcodes 1 and 2 trap when the array operand is not a live identifier
   or the offset operand is >= the length of that array (every access to an
   array of length 0 traps); otherwise they complete, and the word read or
   written lies inside the block of that live array, whose size is the
   length the registry records. *)
C11_IndexAmendBounds ==
    /\ state = "RUN" =>
        \A i \in LiveIds(g_arr, g_arr_len) : Len(SlotBuf(g_arr, heap, i)) = g_arr[i].len
    /\ LastIsOp(1) =>
        LET id == last.regs[LastB]
            off == last.regs[LastC]
        IN IF id \notin LiveIds(last.arr, last.alen)
           THEN state = "FAILED" /\ diag = "index: inactive array"
           ELSE IF off >= last.arr[id].len
           THEN state = "FAILED" /\ diag = "index: offset OOB"
           ELSE /\ state = "RUN"
                /\ off < Len(SlotBuf(last.arr, last.heap, id))
                /\ regs = [last.regs EXCEPT ![LastA] = SlotBuf(last.arr, last.heap, id)[off + 1]]
                /\ heap = last.heap
    /\ LastIsOp(2) =>
        LET id == last.regs[LastA]
            off == last.regs[LastB]
        IN IF id \notin LiveIds(last.arr, last.alen)
           THEN state = "FAILED" /\ diag = "update: inactive array"
           ELSE IF off >= last.arr[id].len
           THEN state = "FAILED" /\ diag = "update: offset OOB"
           ELSE /\ state = "RUN"
                /\ off < Len(SlotBuf(last.arr, last.heap, id))
                /\ DOMAIN heap = DOMAIN last.heap
                /\ \A a \in DOMAIN heap :
                    /\ Len(heap[a]) = Len(last.heap[a])
                    /\ a # last.arr[id].data => heap[a] = last.heap[a]

(* an opcode 1 on a live array of length 0, offset 0: it traps *)
C11_Witness ==
    /\ LastIsOp(1)
    /\ last.regs[LastB] \in LiveIds(last.arr, last.alen)
    /\ last.arr[last.regs[LastB]].len = 0
    /\ last.regs[LastC] = 0
    /\ state = "FAILED"
    /\ diag = "index: offset OOB"

(* C12: an opcode 2 that completes changes the word at offset r[B] of array
   r[A] to r[C] and nothing else in the pool; an opcode 1 that completes on
   (id, k) returns the value of the last opcode 2 on (id, k), provided id was
   not abandoned and (for id = 0) array 0 was not replaced by opcode 12 since
   (written holds exactly those last values). *)
C12_ReadAfterWrite ==
    /\ Completed(2) =>
        LET id == last.regs[LastA]
            off == last.regs[LastB]
            val == last.regs[LastC]
        IN /\ SlotBuf(g_arr, heap, id) =
                  [SlotBuf(last.arr, last.heap, id) EXCEPT ![off + 1] = val]
           /\ SlotBuf(g_arr, heap, id)[off + 1] = val
           /\ \A i \in LiveIds(last.arr, last.alen) \ {id} :
                  SlotBuf(g_arr, heap, i) = SlotBuf(last.arr, last.heap, i)
           /\ g_arr = last.arr
           /\ g_arr_len = last.alen
           /\ g_free_ids = last.free
           /\ regs = last.regs
    /\ Completed(1) =>
        LET id == last.regs[LastB]
            k == last.regs[LastC]
        IN <<id, k>> \in DOMAIN written => regs[LastA] = written[<<id, k>>]

(* an opcode 1 returns the nonzero value stored at (id, k) although another
   word of the same array was updated in between *)
C12_Witness ==
    /\ Completed(1)
    /\ <<last.regs[LastB], last.regs[LastC]>> \in DOMAIN written
    /\ \E p \in DOMAIN written :
        /\ p[1] = last.regs[LastB]
        /\ p[2] # last.regs[LastC]
        /\ written[p] # written[<<last.regs[LastB], last.regs[LastC]>>]
    /\ regs[LastA] # 0
    /\ last.regs[LastA] # regs[LastA]

(* C13: opcode 12 with r[B] = 0 always completes and is a pure jump: the slot
   table (array 0's block and length included), every block of the heap, the
   free-id stack, the registers and the I/O streams are unchanged, and PC is
   r[C], not r[C] + 1. *)
C13_LoadProgZero ==
    LastIsOp(12) /\ last.regs[LastB] = 0 =>
        /\ state = "RUN"
        /\ g_arr = last.arr
        /\ g_arr_len = last.alen
        /\ heap = last.heap
        /\ g_free_ids = last.free
        /\ regs = last.regs
        /\ pc = last.regs[LastC]
        /\ input = last.input
        /\ output = last.output

(* a jump with r[B] = 0 to a nonzero target that is not the next instruction *)
C13_Witness ==
    /\ Completed(12)
    /\ last.regs[LastB] = 0
    /\ pc # 0
    /\ pc # (last.pc + 1) % WordMod
    /\ pc = last.regs[LastC]

(* C14: opcode 12 with r[B] a live nonzero identifier either fails on the
   host's malloc ("loadprog: OOM") or completes; when it completes array 0 has
   the length and, at every offset, the word the source array had when the
   instruction started, PC is r[C] (not incremented), and the source array is
   still live under the same identifier with the same block and contents. *)
C14_LoadProgCopy ==
    LastIsOp(12) /\ last.regs[LastB] \in (LiveIds(last.arr, last.alen) \ {0}) =>
        LET s == last.regs[LastB]
            src == SlotBuf(last.arr, last.heap, s)
        IN /\ state = "FAILED" => diag = "loadprog: OOM" /\ last.arr[s].len > 0
           /\ state = "RUN" =>
                /\ g_arr[0].len = last.arr[s].len
                /\ g_arr[0].active # 0
                /\ Len(SlotBuf(g_arr, heap, 0)) = Len(src)
                /\ \A k \in 1 .. Len(src) : SlotBuf(g_arr, heap, 0)[k] = src[k]
                /\ pc = last.regs[LastC]
                /\ s \in LiveIds(g_arr, g_arr_len)
                /\ g_arr[s] = last.arr[s]
                /\ SlotBuf(g_arr, heap, s) = src
                /\ regs = last.regs
                /\ g_free_ids = last.free

(* a source array holding a word other than 0 is loaded, and array 0 had
   other contents before *)
C14_Witness ==
    /\ Completed(12)
    /\ last.regs[LastB] \in (LiveIds(last.arr, last.alen) \ {0})
    /\ Dirty(last.arr, last.heap, last.regs[LastB])
    /\ SlotBuf(g_arr, heap, 0) # SlotBuf(last.arr, last.heap, 0)
    /\ SlotBuf(g_arr, heap, 0) = SlotBuf(last.arr, last.heap, last.regs[LastB])

(* C15: the copy opcode 12 installs as array 0 is independent of its source:
   array 0 never shares its block with another live array; an opcode 2 on
   array 0 changes no word and no length of any other array, an opcode 2 on
   another array and an opcode 9 change no word of array 0 and not its
   length. *)
C15_CopyIndependent ==
    /\ state = "RUN" =>
        \A i \in LiveIds(g_arr, g_arr_len) \ {0} :
            g_arr[i].data = NULL \/ g_arr[i].data # g_arr[0].data
    /\ Completed(2) /\ last.regs[LastA] = 0 =>
        \A i \in LiveIds(last.arr, last.alen) \ {0} :
            /\ g_arr[i] = last.arr[i]
            /\ SlotBuf(g_arr, heap, i) = SlotBuf(last.arr, last.heap, i)
    /\ (Completed(2) /\ last.regs[LastA] # 0) \/ Completed(9) =>
        /\ g_arr[0] = last.arr[0]
        /\ SlotBuf(g_arr, heap, 0) = SlotBuf(last.arr, last.heap, 0)

(* array 0 is a copy made by opcode 12 (its block is not the boot block) and
   equal to its live source s; an opcode 2 then changes a word of s, and
   array 0 keeps the old word *)
C15_Witness ==
    /\ Completed(2)
    /\ last.regs[LastA] # 0
    /\ last.arr[0].data # BootBlock
    /\ SlotBuf(last.arr, last.heap, last.regs[LastA]) = SlotBuf(last.arr, last.heap, 0)
    /\ SlotBuf(g_arr, heap, last.regs[LastA]) # SlotBuf(g_arr, heap, 0)
    /\ SlotBuf(g_arr, heap, 0) = SlotBuf(last.arr, last.heap, 0)

(* C16: opcode 12 with r[B] nonzero and not a live identifier (never issued,
   or abandoned) traps with "loadprog: inactive id"; the instruction neither
   jumps nor replaces array 0: PC and the registers are as before and the
   blocks released on exit are those of the registry as it was, none having
   been allocated. *)
C16_LoadProgInactive ==
    LastIsOp(12) /\ last.regs[LastB] # 0
                 /\ last.regs[LastB] \notin LiveIds(last.arr, last.alen) =>
        /\ state = "FAILED"
        /\ diag = "loadprog: inactive id"
        /\ exitcode = 1
        /\ pc = last.pc
        /\ regs = last.regs
        /\ heap = HeapFreeAll(last.heap, DestroyedBlocks(last.arr, last.alen))

(* opcode 12 on an identifier that was abandoned, with a target other than
   the PC of the instruction *)
C16_Witness ==
    /\ LastIsOp(12)
    /\ last.regs[LastB] # 0
    /\ \E k \in DOMAIN hist : hist[k].ev = "free" /\ hist[k].id = last.regs[LastB]
    /\ last.regs[LastB] \notin LiveIds(last.arr, last.alen)
    /\ last.regs[LastC] # last.pc
    /\ state = "FAILED"
    /\ diag = "loadprog: inactive id"

(* C17: opcode 12 whose source is a live array of length 0 never traps in
   that instruction (no malloc is made): array 0 gets length 0 and PC is
   r[C]; opcode 12 never traps because of r[C], only for an inactive
   identifier or a failed malloc.  A cycle that starts while PC >= the length
   of array 0 (every PC, when the length is 0) fetches nothing and traps with
   "PC out of bounds", and in a running state with array 0 empty that trap
   is the step that can be taken. *)
C17_LoadProgEmpty ==
    /\ LastIsOp(12) /\ last.regs[LastB] \in (LiveIds(last.arr, last.alen) \ {0})
                    /\ last.arr[last.regs[LastB]].len = 0 =>
        /\ state = "RUN"
        /\ g_arr[0].len = 0
        /\ g_arr[0].data = NULL
        /\ pc = last.regs[LastC]
    /\ LastIsOp(12) /\ state = "FAILED" => diag \in {"loadprog: inactive id", "loadprog: OOM"}
    /\ Completed(12) => pc = last.regs[LastC]
    /\ cycles > 0 /\ last.pc >= last.len0 =>
        /\ last.w = -1
        /\ state = "FAILED"
        /\ diag = "PC out of bounds at cycle start"
    /\ state = "RUN" /\ g_arr[0].len = 0 /\ cycles < MaxCycles => ENABLED PcTrap

(* the cycle after an empty array was loaded (only opcode 12 makes array 0
   empty) with a target r[C] > 0: it trapped *)
C17_Witness ==
    /\ cycles > 0
    /\ last.w = -1
    /\ last.len0 = 0
    /\ last.pc > 0
    /\ state = "FAILED"
    /\ diag = "PC out of bounds at cycle start"

(* bit i of word x *)
BitOf(x, i) == (x \div Pow2(i)) % 2

(* C18: opcodes 3, 4 and 6 never trap; opcode 3 leaves in r[A] the word
   congruent to r[B] + r[C] modulo 2^WordBits, opcode 4 the word congruent to
   r[B] * r[C], opcode 6 the word whose every bit is the complement of the
   AND of the same bits of r[B] and r[C]; the operands are the values the
   registers had before the instruction, also when A is B or C, and no other
   register changes. *)
C18_Arithmetic ==
    /\ \A r \in 0 .. 7 : regs[r] \in Word
    /\ LastIsOp(3) \/ LastIsOp(4) \/ LastIsOp(6) =>
        /\ state = "RUN"
        /\ \A r \in 0 .. 7 : r # LastA => regs[r] = last.regs[r]
    /\ LastIsOp(3) =>
        \E k \in {0, 1} : regs[LastA] + k * WordMod = last.regs[LastB] + last.regs[LastC]
    /\ LastIsOp(4) =>
        (last.regs[LastB] * last.regs[LastC] - regs[LastA]) % WordMod = 0
    /\ LastIsOp(6) =>
        \A i \in 0 .. (WordBits - 1) :
            BitOf(regs[LastA], i) = 1 - BitOf(last.regs[LastB], i) * BitOf(last.regs[LastC], i)

(* an addition with A = B = C whose sum does not fit a word *)
C18_Witness ==
    /\ Completed(3)
    /\ LastA = LastB
    /\ LastA = LastC
    /\ last.regs[LastB] + last.regs[LastC] >= WordMod
    /\ regs[LastA] = last.regs[LastB] + last.regs[LastC] - WordMod

(* C19: opcode 5 with r[C] # 0 completes and leaves in r[A] the floor of
   r[B] / r[C] as unsigned numbers (q with q * r[C] <= r[B] < (q + 1) * r[C]),
   no other register changing; with r[C] = 0 it traps with "divide by zero"
   and every register is as before. *)
C19_Division ==
    LastIsOp(5) =>
        IF last.regs[LastC] = 0
        THEN /\ state = "FAILED"
             /\ diag = "divide by zero"
             /\ regs = last.regs
        ELSE /\ state = "RUN"
             /\ regs[LastA] \in Word
             /\ regs[LastA] * last.regs[LastC] <= last.regs[LastB]
             /\ last.regs[LastB] < (regs[LastA] + 1) * last.regs[LastC]
             /\ \A r \in 0 .. 7 : r # LastA => regs[r] = last.regs[r]

(* a division that leaves a remainder, with a quotient of at least 2 *)
C19_Witness ==
    /\ Completed(5)
    /\ last.regs[LastC] > 1
    /\ last.regs[LastB] % last.regs[LastC] # 0
    /\ regs[LastA] >= 2

(* C20: standard output grows only by opcode 10: an opcode 10 with
   r[C] <= 255 completes and appends exactly the byte r[C] at the end of the
   output, an opcode 10 with r[C] > 255 traps with "output: value > 255" and
   appends nothing, and no other cycle changes the output; every byte of the
   output is in 0..255. *)
C20_Output ==
    /\ \A k \in DOMAIN output : output[k] \in 0 .. 255
    /\ cycles > 0 /\ ~LastIsOp(10) => output = last.output
    /\ LastIsOp(10) =>
        IF last.regs[LastC] > 255
        THEN /\ state = "FAILED"
             /\ diag = "output: value > 255"
             /\ output = last.output
        ELSE /\ state = "RUN"
             /\ output = Append(last.output, last.regs[LastC])

(* a second byte, above 127, is appended after the first *)
C20_Witness ==
    /\ Completed(10)
    /\ Len(last.output) >= 1
    /\ last.regs[LastC] > 127
    /\ output = Append(last.output, last.regs[LastC])

(* C21: opcode 11 never traps; it either consumes one byte of standard
   input, the next one, and leaves its value (0..255) in r[C], or finds the
   input at its end, consumes nothing and leaves the all-ones word in r[C];
   no other register, no array and no byte of the output changes, and no
   other cycle consumes input. *)
C21_Input ==
    /\ cycles > 0 /\ ~LastIsOp(11) => input = last.input
    /\ LastIsOp(11) =>
        /\ state = "RUN"
        /\ \A r \in 0 .. 7 : r # LastC => regs[r] = last.regs[r]
        /\ g_arr = last.arr
        /\ g_arr_len = last.alen
        /\ heap = last.heap
        /\ g_free_ids = last.free
        /\ output = last.output
        /\ \/ /\ Len(input) = Len(last.input) + 1
              /\ input = Append(last.input, regs[LastC])
              /\ regs[LastC] \in 0 .. 255
           \/ /\ input = last.input
              /\ eof
              /\ regs[LastC] = AllOnes

(* the second byte of the input, above 127, is read after the first *)
C21_Witness ==
    /\ Completed(11)
    /\ Len(last.input) = 1
    /\ input = Append(last.input, regs[LastC])
    /\ regs[LastC] > 127

(* C22: a cycle that fetches a word of opcode 13 never traps; the register
   named by the three bits below the opcode receives the value of the bits
   below those (the low 25 bits of a 32-bit word, a value < 2^LiShift here),
   bit for bit; PC is incremented, no other register, no array and no stream
   changes, whatever bits 0..8 of the word are. *)
C22_LoadImm ==
    LastFetched /\ OPC(last.w) = 13 =>
        LET A == (last.w \div Pow2(WordBits - 7)) % 8
        IN /\ state = "RUN"
           /\ regs[A] < Pow2(WordBits - 7)
           /\ \A i \in 0 .. (WordBits - 8) : BitOf(regs[A], i) = BitOf(last.w, i)
           /\ \A r \in 0 .. 7 : r # A => regs[r] = last.regs[r]
           /\ pc = (last.pc + 1) % WordMod
           /\ g_arr = last.arr
           /\ g_arr_len = last.alen
           /\ heap = last.heap
           /\ g_free_ids = last.free
           /\ input = last.input
           /\ output = last.output

(* a load-immediate whose bits 6..8 name another register than its register
   field, with a nonzero immediate *)
C22_Witness ==
    /\ LastFetched
    /\ OPC(last.w) = 13
    /\ state = "RUN"
    /\ (last.w \div 64) % 8 # (last.w \div Pow2(WordBits - 7)) % 8
    /\ regs[(last.w \div Pow2(WordBits - 7)) % 8] = last.w % Pow2(WordBits - 7)
    /\ regs[(last.w \div Pow2(WordBits - 7)) % 8] >= 64
    /\ regs[(last.w \div 64) % 8] = 0

(* the words that agree with w on the opcode and on bits 0..8 *)
SameFields(w) ==
    {(w \div Pow2(WordBits - 4)) * Pow2(WordBits - 4) + 512 * j + (w % 512) :
        j \in 0 .. (Pow2(WordBits - 13) - 1)}

(* C23: the bits between the A field and the opcode of a word of opcode
   0..12 are ignored: every step the machine takes on such a word (registers,
   PC, pool, streams, exit state and diagnostic, with the same outcomes of
   the host's allocations and input) is the step it takes, from the same
   state, on every word with the same opcode and the same bits 0..8. *)
C23_UnusedBitsIgnored ==
    [][(cycles' = cycles + 1 /\ last'.w >= 0 /\ OPC(last'.w) <= 12) =>
          \A v \in SameFields(last'.w) : Exec(v)]_vars

(* an instruction whose unused bits are set changed a register *)
C23_Witness ==
    /\ LastFetched
    /\ OPC(last.w) <= 12
    /\ (last.w \div 512) % Pow2(WordBits - 13) # 0
    /\ state = "RUN"
    /\ regs # last.regs

(* C24: the machine starts running only on a file whose size is positive
   and a multiple of 4; for any other size main exits 1 before it reads a
   byte, with no cycle run and nothing written.  When it starts, array 0 is
   live, its length is size/4 and its word i consists, from the most
   significant byte down, of bytes 4i .. 4i+3 of the file; the eight
   registers and PC are 0, the free-id stack is empty and 0 is the only live
   identifier. *)
C24_Boot ==
    /\ cycles = 0
    /\ output = <<>>
    /\ Len(file) = 0 \/ Len(file) % 4 # 0 =>
        /\ state \in {"BOOT", "FAILED"}
        /\ fpos = 0
    /\ state = "FAILED" =>
        /\ exitcode = 1
        /\ Len(file) = 0 => diag \in {".um file is empty", "fseeko failed", "ftello failed",
                                      "fseeko rewind failed"}
        /\ Len(file) % 4 # 0 => diag \in {".um size not divisible by 4", "fseeko failed",
                                          "ftello failed", "fseeko rewind failed"}
    /\ state = "RUN" =>
        /\ Len(file) > 0
        /\ Len(file) % 4 = 0
        /\ LiveIds(g_arr, g_arr_len) = {0}
        /\ g_arr[0].len * 4 = Len(file)
        /\ Len(SlotBuf(g_arr, heap, 0)) = g_arr[0].len
        /\ \A i \in 0 .. (g_arr[0].len - 1) :
            \A k \in 0 .. 3 :
                (SlotBuf(g_arr, heap, 0)[i + 1] \div Pow2((3 - k) * ByteBits)) % Pow2(ByteBits)
                    = file[4 * i + k + 1]
        /\ \A i \in 0 .. (g_arr[0].len - 1) :
            SlotBuf(g_arr, heap, 0)[i + 1] \in 0 .. (Pow2(4 * ByteBits) - 1)
        /\ regs = [r \in 0 .. 7 |-> 0]
        /\ pc = 0
        /\ g_free_ids = <<>>

(* a file of two words is loaded; the first byte of the file has its top
   bit set and the last byte of the first word is 0 *)
C24_Witness ==
    /\ state = "RUN"
    /\ Len(file) = 8
    /\ file[1] = Pow2(ByteBits) - 1
    /\ file[4] = 0
    /\ file[5] = 0
    /\ file[8] = 1
    /\ g_arr[0].len = 2
    /\ SlotBuf(g_arr, heap, 0)[2] < Pow2(ByteBits) * Pow2(ByteBits) * Pow2(ByteBits)

----------------------------------------------------------------------------
(* The operands of a source line, read from the tables of literals the
   sources are written with *)

IsRegOperand(t) == \E e \in RegLiterals : e.tok = t /\ e.value <= 7
RegNumber(t) == (CHOOSE e \in RegLiterals : e.tok = t).value
IsImmOperand(t) == \E e \in ImmLiterals : e.tok = t /\ e.value <= LI_MAX
ImmNumber(t) == (CHOOSE e \in ImmLiterals : e.tok = t).value

(* the word the encoding tables give for line s, -1 when s is not a
   mnemonic with exactly its operands, all valid *)
TableWord(s) ==
    LET mn == s[1]
        n == Len(s) - 1
        R(k) == RegNumber(s[k + 1])
        regs_ok(m) == n = m /\ \A k \in 1 .. m : IsRegOperand(s[k + 1])
    IN IF mn = MN.loadimm
       THEN IF n = 2 /\ IsRegOperand(s[2]) /\ IsImmOperand(s[3])
            THEN 13 * Pow2(OpShift) + R(1) * Pow2(LiShift) + ImmNumber(s[3])
            ELSE -1
       ELSE IF \E op \in 0 .. 6 : mn = ABCMnemonics[op + 1]
       THEN IF regs_ok(3)
            THEN ABCOp(mn) * Pow2(OpShift) + R(1) * 64 + R(2) * 8 + R(3)
            ELSE -1
       ELSE IF mn = MN.halt THEN (IF n = 0 THEN 7 * Pow2(OpShift) ELSE -1)
       ELSE IF mn = MN.alloc
       THEN IF regs_ok(2) THEN 8 * Pow2(OpShift) + R(1) * 8 + R(2) ELSE -1
       ELSE IF mn = MN.dealloc
       THEN IF regs_ok(1) THEN 9 * Pow2(OpShift) + R(1) ELSE -1
       ELSE IF mn = MN.out
       THEN IF regs_ok(1) THEN 10 * Pow2(OpShift) + R(1) ELSE -1
       ELSE IF mn = MN.in
       THEN IF regs_ok(1) THEN 11 * Pow2(OpShift) + R(1) ELSE -1
       ELSE IF mn = MN.loadprog
       THEN IF regs_ok(2) THEN 12 * Pow2(OpShift) + R(1) * 8 + R(2) ELSE -1
       ELSE -1

(* the k-th word of a binary *)
WordAt(bin, k) == disasm_be32_from(SubSeq(bin, 4 * k + 1, 4 * k + 4))

(* C25: for every mnemonic with valid operands the second pass appends
   exactly one word to the output, the word (op << 28) | (A << 6) | (B << 3)
   | C of the mnemonic table with 0 for the operands the mnemonic does not
   take, and for loadimm (13 << 28) | (A << 25) | imm; bits 9..27 of a word
   that is not a loadimm are 0.  Only a failed write stops it. *)
C25_Encoding ==
    line2.insn /\ TableWord(line2.s) >= 0 =>
        \/ /\ line2.ok
           /\ line2.word = TableWord(line2.s)
           /\ Len(fout) = line2.at + 4
           /\ WordAt(fout, line2.at \div 4) = TableWord(line2.s)
           /\ OPC(line2.word) # 13 => (line2.word \div 512) % Pow2(OpShift - 9) = 0
        \/ /\ ~line2.ok
           /\ state = "FAILED"
           /\ diag = "write failed"

(* alloc r3 r5 has been assembled: A is encoded as 0 *)
C25_Witness ==
    /\ line2.insn
    /\ line2.ok
    /\ line2.s = <<MN.alloc, RTok(3), RTok(5)>>
    /\ fout = emit_be32(8 * Pow2(OpShift) + 29)

----------------------------------------------------------------------------
(* The words of a binary *)
WordsOf(bin) == [k \in 1 .. Len(bin) \div 4 |-> WordAt(bin, k - 1)]

(* a word whose bits outside the fields its instruction uses are all 0 *)
Canonical(w) ==
    LET op == OPC(w)
    IN \/ op = 13
       \/ op <= 6 /\ w = op * Pow2(OpShift) + ABC_A(w) * 64 + ABC_B(w) * 8 + ABC_C(w)
       \/ op = 7 /\ w = op * Pow2(OpShift)
       \/ op \in {8, 12} /\ w = op * Pow2(OpShift) + ABC_B(w) * 8 + ABC_C(w)
       \/ op \in {9, 10, 11} /\ w = op * Pow2(OpShift) + ABC_C(w)

(* the failures of the host an assembler run can end with *)
AsmHostFailures == {"cannot open", "oom labels", "oom strdup", "rewind failed", "write failed"}

(* a binary was disassembled and its listing assembled *)
Relisted == state = "IDLE" /\ todo = <<>> /\ ran = <<"disasm", "asm">>

(* C26 as stated: for every word W with an opcode in 0..13, assembling what
   the disassembler prints for W yields exactly W. *)
C26_EveryWord ==
    Relisted /\ (\A k \in 1 .. Len(file) \div 4 : OPC(WordsOf(file)[k]) <= 13) =>
        WordsOf(fout) = WordsOf(file)

(* C26 amended: for every word W with an opcode in 0..13 whose bits outside
   the fields its instruction uses are 0, assembling what the disassembler
   prints for W succeeds and yields exactly W. *)
C26_CanonicalWord ==
    (\A k \in 1 .. Len(file) \div 4 : Canonical(WordsOf(file)[k])) =>
        /\ Relisted => fout = file
        /\ state = "FAILED" /\ ran = <<"disasm">> => diag \in AsmHostFailures

(* add 5 6 3 has been printed and assembled again *)
C26_Witness ==
    /\ Relisted
    /\ file = emit_be32(add(5, 6, 3))
    /\ fout = file
    /\ listing[2] = <<MN.add, <<"5">>, <<"6">>, <<"3">> >>

----------------------------------------------------------------------------
(* the failures of the host a disassembler run can end with *)
DisasmHostFailures ==
    {"cannot open", "fseeko failed", "ftello failed", "rewind failed", "out of memory",
     "short read"}

(* a source was assembled, the binary disassembled and the listing assembled *)
RoundTrip == state = "IDLE" /\ todo = <<>> /\ ran = <<"asm", "disasm", "asm">>

(* C27 as stated: every binary B the assembler emits from a source it
   accepts is disassembled, the listing is assembled, and the binary that
   gives is B. *)
C27_EveryBinary ==
    /\ RoundTrip => fout = file
    /\ state = "FAILED" /\ ran = <<"asm">> => diag \in DisasmHostFailures
    /\ state = "FAILED" /\ ran = <<"asm", "disasm">> => diag \in AsmHostFailures

(* C27 amended: every binary B of at least one word that the assembler emits
   from a source it accepts is disassembled, the listing is assembled (its
   header lines are comments), and the binary that gives is B, word for word
   and in the same order. *)
C27_NonEmptyBinary ==
    /\ RoundTrip => fout = file /\ WordsOf(fout) = WordsOf(file)
    /\ state = "FAILED" /\ ran = <<"asm">> /\ Len(fout) > 0 => diag \in DisasmHostFailures
    /\ state = "FAILED" /\ ran = <<"asm", "disasm">> => diag \in AsmHostFailures

(* a binary of two words, the second a loadimm, has made the round trip *)
C27_Witness ==
    /\ RoundTrip
    /\ Len(file) = 8
    /\ OPC(WordsOf(file)[2]) = 13
    /\ Len(listing) = 4
    /\ fout = file

----------------------------------------------------------------------------
(* a line "label @name" of a source *)
IsLabelLine(l) == Len(l) = 2 /\ l[1] = KW_label /\ Len(l[2]) >= 2 /\ l[2][1] = "@"

(* two lines of source f declare the same label *)
DeclaredTwice(f) ==
    \E i \in 1 .. Len(f) : \E j \in (i + 1) .. Len(f) :
        IsLabelLine(f[i]) /\ f[j] = f[i]

(* C28 as stated: a source in which two label lines declare the same name
   is a hard error; the assembler does not return 0 on it. *)
C28_DuplicateLabelRejected ==
    DeclaredTwice(fin) => ~(state = "IDLE" /\ exitcode = 0 /\ ran = <<"asm">>)

----------------------------------------------------------------------------
(* The lines of a source as the assembly language reads them *)

(* an empty line or one that starts with ";;" *)
IsBlankLine(l) == l = <<>> \/ (Len(l[1]) >= 2 /\ l[1][1] = ";" /\ l[1][2] = ";")
IsInsnLine(l) == ~IsBlankLine(l) /\ ~IsLabelLine(l)

(* the number of instruction lines among the first k - 1 lines of f *)
InsnBefore(f, k) == Cardinality({j \in 1 .. k - 1 : IsInsnLine(f[j])})

(* the lines of f that declare a label, and the i-th of them *)
LabelLines(f) == {k \in 1 .. Len(f) : IsLabelLine(f[k])}
LabelLine(f, i) ==
    CHOOSE k \in LabelLines(f) : Cardinality({j \in LabelLines(f) : j <= k}) = i

(* the first line of f that declares the name of reference token t, 0 if
   none does *)
Declaration(f, t) ==
    LET hits == {k \in 1 .. Len(f) : IsLabelLine(f[k]) /\ f[k][2] = t}
    IN IF hits = {} THEN 0 ELSE First(hits)

(* C29: a label line emits no word and is not counted; the value recorded
   for a label is the number of instruction lines before it, which is the
   index in the binary of the next instruction emitted after it; and
   loadimm A @name encodes that value (of the first declaration of the name)
   whether the label is declared before or after the reference. *)
C29_Labels ==
    /\ state \in {"PASS1", "PASS2"} =>
        /\ Len(labels) <= Cardinality(LabelLines(fin))
        /\ state = "PASS2" => Len(labels) = Cardinality(LabelLines(fin))
        /\ \A i \in 1 .. Len(labels) :
               /\ labels[i].pc = InsnBefore(fin, LabelLine(fin, i))
               /\ <<"@">> \o labels[i].name = fin[LabelLine(fin, i)][2]
        /\ state = "PASS1" => pc = InsnBefore(fin, lineno + 1)
    /\ state = "PASS2" /\ line2.lineno > 0 =>
        /\ IsLabelLine(line2.s) => ~line2.insn /\ Len(fout) = line2.at
        /\ line2.insn /\ line2.ok =>
               /\ line2.at = 4 * InsnBefore(fin, line2.lineno)
               /\ Len(fout) = line2.at + 4
        /\ /\ line2.insn
           /\ line2.ok
           /\ line2.s[1] = MN.loadimm
           /\ line2.s[3][1] = "@"
           => /\ Declaration(fin, line2.s[3]) > 0
              /\ OPC(line2.word) = 13
              /\ LI_VAL(line2.word) = InsnBefore(fin, Declaration(fin, line2.s[3]))

(* loadimm r1 @a in the first line, label @a declared behind two
   instruction lines *)
C29_Witness ==
    /\ state = "PASS2"
    /\ fin = <<<<MN.loadimm, RTok(1), <<"@", "a">> >>, <<MN.halt>>, LabelA, <<MN.halt>> >>
    /\ line2.lineno = 1
    /\ line2.ok
    /\ line2.word = EncLI(1, 2)
    /\ labels = <<[name |-> <<"a">>, pc |-> 2]>>

(* the value an immediate literal is written with, and the number of
   register operands a mnemonic takes *)
WrittenImm(t) == {e.value : e \in {l \in ImmLiterals : l.tok = t}}
WrittenReg(t) == {e.value : e \in {l \in RegLiterals : l.tok = t}}
RegOperands(mn) ==
    IF \E op \in 0 .. 6 : mn = ABCMnemonics[op + 1] THEN 3
    ELSE IF mn \in {MN.alloc, MN.loadprog} THEN 2
    ELSE IF mn \in {MN.loadimm, MN.dealloc, MN.out, MN.in} THEN 1
    ELSE 0

(* the second pass stopped at its last line: exit 1, nothing written *)
Rejected == ~line2.ok /\ state = "FAILED" /\ exitcode = 1 /\ Len(fout) = line2.at

(* C30: a loadimm whose immediate is written as a number or a character
   literal of value >= 2^25 (the immediate limit + 1), or as a label whose
   PC is that large, is a hard error: the assembler exits 1 and emits no
   word for the line; and a register operand written outside 0..7 is
   rejected, not masked to 3 bits. *)
C30_OversizeRejected ==
    line2.lineno > 0 /\ line2.insn =>
        /\ /\ line2.s[1] = MN.loadimm
           /\ Len(line2.s) >= 3
           /\ \E v \in WrittenImm(line2.s[3]) : v > LI_MAX
           => Rejected
        /\ /\ line2.s[1] = MN.loadimm
           /\ Len(line2.s) >= 3
           /\ line2.s[3][1] = "@"
           /\ Declaration(fin, line2.s[3]) > 0
           /\ InsnBefore(fin, Declaration(fin, line2.s[3])) > LI_MAX
           => Rejected
        /\ \A k \in 1 .. RegOperands(line2.s[1]) :
               /\ Len(line2.s) > k
               /\ \E v \in WrittenReg(line2.s[k + 1]) : v > 7
               => Rejected

(* C31: opcode 0 never traps; it sets r[A] to r[B] when r[C] # 0 and leaves
   every register as it was when r[C] = 0.  Every instruction other than
   opcode 12 that completes without halting or trapping leaves PC one
   higher (as a word) than it found it. *)
C31_CmovAndPc ==
    /\ LastIsOp(0) =>
        /\ state = "RUN"
        /\ last.regs[LastC] # 0 => regs = [last.regs EXCEPT ![LastA] = last.regs[LastB]]
        /\ last.regs[LastC] = 0 => regs = last.regs
    /\ LastFetched /\ state = "RUN" /\ OPC(last.w) # 12 => pc = (last.pc + 1) % WordMod

(* r1 = 5: the move on r[C] = 0 left r2 at 0, the move on r[C] = 5 set r3 *)
C31_Witness ==
    /\ Completed(0)
    /\ last.pc = 2
    /\ last.regs = [i \in 0 .. 7 |-> IF i = 1 THEN 5 ELSE 0]
    /\ LastA = 3
    /\ regs = [i \in 0 .. 7 |-> IF i \in {1, 3} THEN 5 ELSE 0]
    /\ pc = 3

(* the emulator runs / both tools have run on the binary *)
UmPhase == todo # <<>> /\ Head(todo) = "um"
BothRan == state = "IDLE" /\ todo = <<>>

(* the line expected for a word of unknown opcode *)
UnknownText(w) ==
    <<<<";", ";">>, <<"U", "N", "K", "N", "O", "W", "N">>,
      <<"o", "p", "=", "1">> \o (IF OPC(w) = 14 THEN <<"4">> ELSE <<"5">>),
      <<"(", "r", "a", "w", "=", "0", "x">> \o Format08x(w) \o <<")">> >>

(* C32: a fetched word of opcode 14 or 15 stops the emulator: FAILED with
   "invalid opcode", exit 1, no register, array or stream changed before
   the pool is released.  The disassembler on the same file prints two
   lines for every word, for such a word the comment ";; UNKNOWN op=<n>
   (raw=0x<hex>)", goes on with the words after it and returns 0; only a
   failure of the host (open, seek, memory, read) stops it. *)
C32_UnknownOpcode ==
    /\ UmPhase /\ LastFetched /\ OPC(last.w) > 13 =>
        /\ state = "FAILED"
        /\ diag = "invalid opcode"
        /\ exitcode = 1
        /\ regs = last.regs
        /\ heap = HeapFreeAll(last.heap, DestroyedBlocks(last.arr, last.alen))
        /\ input = last.input
        /\ output = last.output
    /\ ~UmPhase =>
        /\ state = "FAILED" => diag \in DisasmHostFailures /\ listing = <<>>
        /\ state = "DISASM" => Len(listing) = 2 * pc
        /\ \A k \in 0 .. (Len(listing) \div 2 - 1) :
               OPC(WordAt(file, k)) > 13 => listing[2 * k + 2] = UnknownText(WordAt(file, k))
        /\ BothRan =>
               /\ exitcode = 0
               /\ ran \in {<<"disasm">>, <<"um", "disasm">>}
               /\ Len(listing) = 2 * (Len(file) \div 4)
               /\ /\ LastFetched
                  /\ OPC(last.w) > 13
                  /\ last.arr[0].data = BootBlock
                  => /\ ran = <<"disasm">>
                     /\ listing[2 * last.pc + 2] = UnknownText(last.w)

(* the emulator stopped at the word of opcode 15 at pc 1, before the
   output; the disassembler listed all four words and returned 0 *)
C32_Witness ==
    /\ BothRan
    /\ ran = <<"disasm">>
    /\ exitcode = 0
    /\ last.pc = 1
    /\ OPC(last.w) = 15
    /\ output = <<>>
    /\ Len(listing) = 8
    /\ listing[4] = UnknownText(last.w)
    /\ listing[6] = <<MN.out, <<"1">> >>
    /\ listing[8][3] = <<"o", "p", "=", "1", "4">>

(* how often id occurs in the free-id stack *)
TimesFree(free, id) == Cardinality({k \in DOMAIN free : free[k] = id})

(* C33: while the machine runs, every identifier from 1 to the slot count
   - 1 is either live or exactly once in the free-id stack, never both; the
   stack holds no identifier twice, never 0 and never one >= the slot
   count; and no cycle leaves the slot count lower than it found it. *)
C33_PoolPartition ==
    state = "RUN" =>
        /\ \A id \in 1 .. (g_arr_len - 1) :
               TimesFree(g_free_ids, id) = (IF g_arr[id].active # 0 THEN 0 ELSE 1)
        /\ \A k \in DOMAIN g_free_ids :
               /\ g_free_ids[k] # 0
               /\ g_free_ids[k] < g_arr_len
               /\ \A j \in DOMAIN g_free_ids : j # k => g_free_ids[j] # g_free_ids[k]
        /\ cycles > 0 => g_arr_len >= last.alen

(* three identifiers issued, 1 and 3 abandoned in that order, 2 live *)
C33_Witness ==
    /\ state = "RUN"
    /\ g_arr_len = 4
    /\ g_free_ids = <<1, 3>>
    /\ g_arr[2].active # 0
    /\ g_arr[1].active = 0
    /\ Completed(9)

(* the last cycle fetched a word with an opcode in S *)
LastOpIn(S) == LastFetched /\ OPC(last.w) \in S

(* the pool is as the last cycle found it / was released as it found it *)
PoolKept ==
    /\ g_arr = last.arr
    /\ g_arr_len = last.alen
    /\ g_free_ids = last.free
    /\ heap = last.heap
PoolReleasedAsFound == heap = HeapFreeAll(last.heap, DestroyedBlocks(last.arr, last.alen))

(* C34: an instruction of opcode 0, 1, 3, 4, 5, 6, 10, 11 or 13 leaves the
   contents, length and liveness of every array and the free-id stack as
   they were (when it traps, the pool is released as it was found); one of
   opcode 2, 9, 10 or 12 leaves every register as it was; one of opcode 8
   changes no register but r[B] and no array that was live. *)
C34_Frame ==
    /\ LastOpIn({0, 1, 3, 4, 5, 6, 10, 11, 13}) =>
        /\ state = "RUN" => PoolKept
        /\ state = "FAILED" => PoolReleasedAsFound
    /\ LastOpIn({2, 9, 10, 12}) => regs = last.regs
    /\ LastOpIn({8}) =>
        /\ \A r \in 0 .. 7 : r # LastB => regs[r] = last.regs[r]
        /\ state = "RUN" =>
              \A id \in LiveIds(last.arr, last.alen) :
                  /\ g_arr[id] = last.arr[id]
                  /\ SlotBuf(g_arr, heap, id) = SlotBuf(last.arr, last.heap, id)

(* the allocation that makes the slot table grow from 4 to 8 slots, with
   arrays 0..3 live *)
C34_Witness ==
    /\ Completed(8)
    /\ LiveIds(last.arr, last.alen) = {0, 1, 2, 3}
    /\ DOMAIN last.arr = 0 .. 3
    /\ g_arr_cap = 8
    /\ regs[LastB] = 4
    /\ last.regs[LastB] # 4

(* the last cycle started with the free-id stack empty and every nonzero
   identifier a word can hold live *)
Exhausted ==
    /\ last.free = <<>>
    /\ last.alen = WordMod
    /\ LiveIds(last.arr, last.alen) = 0 .. (WordMod - 1)

(* C35: when every nonzero identifier a word can hold is live, opcode 8
   stops the machine with "alloc: id 0 reserved" (or with an out-of-memory
   message when the host refuses the block or the larger slot table): no
   register is written, and every block the pool held, array 0 included,
   is released as it was.  An opcode 8 that completes never puts 0 or a
   live identifier in r[B] and leaves array 0 as it was. *)
C35_Exhaustion ==
    /\ LastIsOp(8) /\ Exhausted =>
        /\ state = "FAILED"
        /\ exitcode = 1
        /\ diag \in {"alloc: id 0 reserved", "alloc: OOM", "out of memory (arr)"}
        /\ last.regs[LastC] = 0 => diag # "alloc: OOM"
        /\ regs = last.regs
        /\ diag # "out of memory (arr)" => \A a \in DOMAIN heap : a \notin DOMAIN last.heap
    /\ Completed(8) =>
        /\ ~Exhausted
        /\ regs[LastB] \in 1 .. (WordMod - 1)
        /\ regs[LastB] \notin LiveIds(last.arr, last.alen)
        /\ g_arr[0] = last.arr[0]
        /\ SlotBuf(g_arr, heap, 0) = SlotBuf(last.arr, last.heap, 0)

(* the allocation behind the loop, of length 0 into r3, trapped on id 0 *)
C35_Witness ==
    /\ LastIsOp(8)
    /\ Exhausted
    /\ last.pc = 5
    /\ last.regs[1] = AllOnes
    /\ last.regs[LastC] = 0
    /\ state = "FAILED"
    /\ diag = "alloc: id 0 reserved"
    /\ regs[3] = 0

====
